---- MODULE Spec2Model ----
(***************************************************************************)
(* A model of the Propabridge property marketplace: the match scorer and   *)
(* ranker of backend/services/matchingService.js, the listing repository   *)
(* of backend/models/Property.js, the listing routes of                    *)
(* backend/routes/properties.js behind backend/middleware/adminAuth.js,    *)
(* the chat service of backend/services/aiService.js, the one-time codes   *)
(* of backend/services/authService.js, the search flow and the screen      *)
(* navigation of frontend/app.js and the sign-in of frontend/auth.js.      *)
(*                                                                         *)
(* Encoding of JavaScript values.  The code tests its optional inputs by   *)
(* truthiness (!x, if (x), x ? a : b), and undefined, null, 0, "" and      *)
(* false are all falsy, so an absent number is 0, an absent string is "",  *)
(* an absent array is <<>> and an absent boolean is FALSE.  A comparison   *)
(* with undefined (NaN) is false and so is the same comparison of a        *)
(* positive price with 0.  Prices are whole naira and a criteria price of  *)
(* exactly 0 is not told from an absent one.  Time is counted in days.  A  *)
(* created_at that does not parse to a date is NoDate.                     *)
(*                                                                         *)
(* Arithmetic.  The sub-scores are integers and the weighted terms are     *)
(* multiples of 0.05, so the floating-point sum rounds as the exact sum    *)
(* does; the price thresholds 0.8, 0.9, 1.1 and 1.2 of a maximum that is a *)
(* multiple of 10 compare as the exact products do.                        *)
(***************************************************************************)
EXTENDS Integers, Sequences, FiniteSets, TLC

VARIABLES
    now,          \* the clock read by Date.now() and NOW(), in days
    sProperty,    \* scorer harness: the listing handed to calculateMatchScore
    sCriteria,    \* scorer harness: the criteria handed to calculateMatchScore
    scored,       \* scorer harness: the last invocation's outcome, or NoCall
    scoredBefore, \* scorer harness: the outcome of the invocation before it
    properties,   \* the properties table: its rows, in insertion order
    nextId,       \* the next value of the table's SERIAL id
    approvedIds,  \* history: the ids the admin approve route has approved
    response,     \* what the step just taken returned to its caller, or NoResponse
    conversationContext, \* aiService's Map: phone number -> the last messages
    otp_codes,    \* the otp_codes table: a set of rows
    users,        \* the users table: a set of rows
    nextOtpId,    \* the next value of otp_codes' SERIAL id
    nextUserId,   \* the next value of users' SERIAL id
    authCalls,    \* the calls of authService in flight: their locals and position
    minute,       \* the clock read by the authentication service, in minutes
    currentScreen, \* the page's AppState.currentScreen
    screenHistory, \* the page's AppState.screenHistory
    localStorage, \* the page's localStorage: the items authToken and user
    AuthState,    \* the page's AuthState: isAuthenticated and user
    pending       \* the page's request in flight and its timer not yet fired

scoreVars == <<sProperty, sCriteria, scored, scoredBefore>>
authVars == <<otp_codes, users, nextOtpId, nextUserId, authCalls, minute>>
pageVars == <<currentScreen, screenHistory, localStorage, AuthState, pending>>
storeVars == <<properties, nextId, approvedIds, conversationContext, authVars, pageVars>>
vars == <<now, sProperty, sCriteria, scored, scoredBefore,
          properties, nextId, approvedIds, response, conversationContext,
          otp_codes, users, nextOtpId, nextUserId, authCalls, minute,
          currentScreen, screenHistory, localStorage, AuthState, pending>>

(***************************************************************************)
(* Strings: String.prototype.includes, toLowerCase and trim.               *)
(***************************************************************************)
UpperCase == <<"A","B","C","D","E","F","G","H","I","J","K","L","M",
               "N","O","P","Q","R","S","T","U","V","W","X","Y","Z">>
LowerCase == <<"a","b","c","d","e","f","g","h","i","j","k","l","m",
               "n","o","p","q","r","s","t","u","v","w","x","y","z">>

CharAt(s, i) == SubSeq(s, i, i)

\* the lowercase of each uppercase letter
LowerOf == [c \in {UpperCase[i] : i \in DOMAIN UpperCase} |->
               LowerCase[CHOOSE i \in DOMAIN UpperCase : UpperCase[i] = c]]

LowerChar(c) == IF c \in DOMAIN LowerOf THEN LowerOf[c] ELSE c

RECURSIVE toLowerCase(_)
toLowerCase(s) ==
    IF Len(s) = 0 THEN ""
    ELSE LowerChar(CharAt(s, 1)) \o toLowerCase(SubSeq(s, 2, Len(s)))

RECURSIVE trimStart(_)
trimStart(s) ==
    IF Len(s) > 0 /\ CharAt(s, 1) = " " THEN trimStart(SubSeq(s, 2, Len(s))) ELSE s

RECURSIVE trimEnd(_)
trimEnd(s) ==
    IF Len(s) > 0 /\ CharAt(s, Len(s)) = " " THEN trimEnd(SubSeq(s, 1, Len(s) - 1)) ELSE s

trim(s) == trimEnd(trimStart(s))

\* s.includes(t)
includes(s, t) ==
    \E i \in 1..(Len(s) - Len(t) + 1) : SubSeq(s, i, i + Len(t) - 1) = t

\* Math.round of the non-negative rational num/den: floor(x + 1/2)
MathRound(num, den) == (2 * num + den) \div (2 * den)

(***************************************************************************)
(* matchingService.js: the six sub-scores.                                 *)
(***************************************************************************)
NoDate == -1

\* the alias table, in the order Object.entries walks it
aliases == <<
    [key |-> "wuse",     values |-> <<"wuse 2", "wuse2", "wuse ii">>],
    [key |-> "gwarinpa", values |-> <<"gwarinpa estate", "gwagwalada">>],
    [key |-> "maitama",  values |-> <<"maitama district">>],
    [key |-> "v.i",      values |-> <<"victoria island", "vi">>],
    [key |-> "vi",       values |-> <<"victoria island", "v.i">>],
    [key |-> "lekki",    values |-> <<"lekki phase 1", "lekki phase 2", "lekki peninsula">>],
    [key |-> "gra",      values |-> <<"government reserved area", "g.r.a">>] >>

cities == <<"abuja", "lagos", "port harcourt", "ibadan", "kano">>

\* the alias test with the second direction (property names the key) left out
aliasMatchOneWay(entry, requested, property) ==
    /\ includes(requested, entry.key)
    /\ \E i \in DOMAIN entry.values : includes(property, entry.values[i])

\* one turn of the alias loop: the condition of the if at lines 379-380
aliasMatch(entry, requested, property) ==
    \/ /\ includes(requested, entry.key)
       /\ \E i \in DOMAIN entry.values : includes(property, entry.values[i])
    \/ /\ includes(property, entry.key)
       /\ \E i \in DOMAIN entry.values : includes(requested, entry.values[i])

\* the location score with the city test before the alias test
calculateLocationScoreCityFirst(requestedLocation, propertyLocation) ==
    IF requestedLocation = "" \/ propertyLocation = "" THEN 0
    ELSE LET requested == trim(toLowerCase(requestedLocation))
             property  == trim(toLowerCase(propertyLocation))
         IN  IF includes(property, requested) \/ includes(requested, property) THEN 100
             ELSE IF \E c \in DOMAIN cities :
                        includes(requested, cities[c]) /\ includes(property, cities[c]) THEN 50
             ELSE IF \E k \in DOMAIN aliases : aliasMatch(aliases[k], requested, property) THEN 90
             ELSE 0

\* the location score without the guard of line 356: an unset location reaches
\* .toLowerCase() and the call raises a TypeError, written -1
calculateLocationScoreUnguarded(requestedLocation, propertyLocation) ==
    IF requestedLocation = "" \/ propertyLocation = "" THEN -1
    ELSE LET requested == trim(toLowerCase(requestedLocation))
             property  == trim(toLowerCase(propertyLocation))
         IN  IF includes(property, requested) \/ includes(requested, property) THEN 100
             ELSE IF \E k \in DOMAIN aliases : aliasMatch(aliases[k], requested, property) THEN 90
             ELSE IF \E c \in DOMAIN cities :
                        includes(requested, cities[c]) /\ includes(property, cities[c]) THEN 50
             ELSE 0

calculateLocationScore(requestedLocation, propertyLocation) ==
    IF requestedLocation = "" \/ propertyLocation = "" THEN 0
    ELSE LET requested == trim(toLowerCase(requestedLocation))
             property  == trim(toLowerCase(propertyLocation))
         IN  IF includes(property, requested) \/ includes(requested, property) THEN 100
             ELSE IF \E k \in DOMAIN aliases : aliasMatch(aliases[k], requested, property) THEN 90
             ELSE IF \E c \in DOMAIN cities :
                        includes(requested, cities[c]) /\ includes(property, cities[c]) THEN 50
             ELSE 0

\* position >= 0.25 && position <= 0.75, with position = (price - min) / range;
\* a range of 0 makes position NaN (0/0) and both comparisons false
inMiddleHalf(price, min, max) ==
    LET range == max - min
    IN  /\ range > 0
        /\ 4 * (price - min) >= range
        /\ 4 * (price - min) <= 3 * range

\* propertyPrice <= requestedMaxPrice * tenths / 10; false when the maximum is
\* undefined (the product is NaN)
priceWithin(propertyPrice, requestedMaxPrice, tenths) ==
    requestedMaxPrice # 0 /\ 10 * propertyPrice <= tenths * requestedMaxPrice

\* the price score with the last tier's bound exclusive (< in place of <=)
calculatePriceScoreStrict(requestedMaxPrice, requestedMinPrice, propertyPrice) ==
    IF propertyPrice = 0 THEN 0
    ELSE IF /\ requestedMinPrice # 0
            /\ propertyPrice >= requestedMinPrice
            /\ priceWithin(propertyPrice, requestedMaxPrice, 10)
         THEN IF inMiddleHalf(propertyPrice, requestedMinPrice, requestedMaxPrice)
              THEN 100 ELSE 90
    ELSE IF requestedMinPrice = 0 /\ priceWithin(propertyPrice, requestedMaxPrice, 10)
         THEN IF priceWithin(propertyPrice, requestedMaxPrice, 8) THEN 100
              ELSE IF priceWithin(propertyPrice, requestedMaxPrice, 9) THEN 95
              ELSE 90
    ELSE IF priceWithin(propertyPrice, requestedMaxPrice, 11) THEN 70
    ELSE IF requestedMaxPrice # 0 /\ 10 * propertyPrice < 12 * requestedMaxPrice THEN 40
    ELSE 0

calculatePriceScore(requestedMaxPrice, requestedMinPrice, propertyPrice) ==
    IF propertyPrice = 0 THEN 0
    ELSE IF /\ requestedMinPrice # 0
            /\ propertyPrice >= requestedMinPrice
            /\ priceWithin(propertyPrice, requestedMaxPrice, 10)
         THEN IF inMiddleHalf(propertyPrice, requestedMinPrice, requestedMaxPrice)
              THEN 100 ELSE 90
    ELSE IF requestedMinPrice = 0 /\ priceWithin(propertyPrice, requestedMaxPrice, 10)
         THEN IF priceWithin(propertyPrice, requestedMaxPrice, 8) THEN 100
              ELSE IF priceWithin(propertyPrice, requestedMaxPrice, 9) THEN 95
              ELSE 90
    ELSE IF priceWithin(propertyPrice, requestedMaxPrice, 11) THEN 70
    ELSE IF priceWithin(propertyPrice, requestedMaxPrice, 12) THEN 40
    ELSE 0

\* the amenity test with containment tried one way only (p.includes(amenity))
amenityFoundOneWay(amenity, propertyAmenities) ==
    \E j \in DOMAIN propertyAmenities :
        includes(toLowerCase(propertyAmenities[j]), toLowerCase(amenity))

\* property.some(p => p.includes(amenity) || amenity.includes(p)), both lowercased
amenityFound(amenity, propertyAmenities) ==
    \E j \in DOMAIN propertyAmenities :
        LET p == toLowerCase(propertyAmenities[j])
            a == toLowerCase(amenity)
        IN  includes(p, a) \/ includes(a, p)

calculateAmenitiesScore(requestedAmenities, propertyAmenities) ==
    IF Len(requestedAmenities) = 0 THEN 100
    ELSE IF Len(propertyAmenities) = 0 THEN 0
    ELSE LET matches == {i \in DOMAIN requestedAmenities :
                            amenityFound(requestedAmenities[i], propertyAmenities)}
         IN  MathRound(Cardinality(matches) * 100, Len(requestedAmenities))

\* daysSinceCreated > d; every comparison with NaN (an unparsable date) is false
olderThan(createdAt, t, d) == createdAt # NoDate /\ t - createdAt > d
\* daysSinceCreated <= d
atMost(createdAt, t, d) == createdAt # NoDate /\ t - createdAt <= d

Max(a, b) == IF a >= b THEN a ELSE b

\* the age penalty with its two tests in the other order: the test for 30 days
\* comes first, so the penalty of 20 is never applied
calculateConditionScoreFlat(createdAt, verified, t) ==
    LET base == IF verified THEN 100 ELSE 60
        score == IF olderThan(createdAt, t, 30) THEN base - 10
                 ELSE IF olderThan(createdAt, t, 60) THEN base - 20
                 ELSE base
    IN  Max(score, 0)

\* the age penalty with its first threshold one day late
calculateConditionScoreLate(createdAt, verified, t) ==
    LET base == IF verified THEN 100 ELSE 60
        score == IF olderThan(createdAt, t, 61) THEN base - 20
                 ELSE IF olderThan(createdAt, t, 30) THEN base - 10
                 ELSE base
    IN  Max(score, 0)

calculateConditionScore(createdAt, verified, t) ==
    LET base == IF verified THEN 100 ELSE 60
        score == IF olderThan(createdAt, t, 60) THEN base - 20
                 ELSE IF olderThan(createdAt, t, 30) THEN base - 10
                 ELSE base
    IN  Max(score, 0)

calculateResponsivenessScore(userId) == 80

calculateFreshnessScore(createdAt, t) ==
    IF atMost(createdAt, t, 7) THEN 100
    ELSE IF atMost(createdAt, t, 14) THEN 90
    ELSE IF atMost(createdAt, t, 30) THEN 70
    ELSE IF atMost(createdAt, t, 60) THEN 50
    ELSE 30

(***************************************************************************)
(* matchingService.js: the overall score.                                  *)
(***************************************************************************)
\* the weights with those of location and price exchanged
weightsPriceFirst == [location |-> 25, price |-> 30, amenities |-> 20,
                      condition |-> 10, responsiveness |-> 10, freshness |-> 5]

weights == [location |-> 30, price |-> 25, amenities |-> 20,
            condition |-> 10, responsiveness |-> 10, freshness |-> 5]

\* Object.keys(weights), in insertion order
weightKeys == <<"location", "price", "amenities", "condition", "responsiveness", "freshness">>

\* the six sub-scores of a listing against a criteria, read at clock t
subScores(property, criteria, t) ==
    [location       |-> calculateLocationScore(criteria.location, property.location),
     price          |-> calculatePriceScore(criteria.maxPrice, criteria.minPrice, property.price),
     amenities      |-> calculateAmenitiesScore(criteria.amenities, property.amenities),
     condition      |-> calculateConditionScore(property.created_at, property.verified, t),
     responsiveness |-> calculateResponsivenessScore(property.user_id),
     freshness      |-> calculateFreshnessScore(property.created_at, t)]

\* the reduce over Object.keys(weights); the total is kept in hundredths
RECURSIVE weightedTotal(_, _)
weightedTotal(scores, n) ==
    IF n = 0 THEN 0
    ELSE weightedTotal(scores, n - 1) + scores[weightKeys[n]] * weights[weightKeys[n]]

\* the total rounded without the division by 100
overallOfUnscaled(scores) == MathRound(weightedTotal(scores, Len(weightKeys)), 1)

overallOf(scores) == MathRound(weightedTotal(scores, Len(weightKeys)), 100)

calculateMatchScore(property, criteria, t) == overallOf(subScores(property, criteria, t))

(***************************************************************************)
(* models/Property.js: the listing repository.  A row is                   *)
(* [id, type, location, price, bedrooms, amenities, verified, status,      *)
(* created_at, user_id].                                                   *)
(***************************************************************************)
Min(a, b) == IF a <= b THEN a ELSE b

\* seq.slice(0, n), and SQL's LIMIT n
slice(seq, n) == SubSeq(seq, 1, Min(n, Len(seq)))

\* column ILIKE '%text%'
ilike(column, text) == includes(toLowerCase(column), toLowerCase(text))

\* the WHERE clause findByCriteria builds: a filter is added only for a truthy field
whereClause(row, criteria) ==
    /\ row.verified
    /\ (criteria.location # "" => ilike(row.location, criteria.location))
    /\ (criteria.propertyType # "" => ilike(row.type, criteria.propertyType))
    /\ (criteria.minPrice # 0 => row.price >= criteria.minPrice)
    /\ (criteria.maxPrice # 0 => row.price <= criteria.maxPrice)
    /\ (criteria.bedrooms # 0 => row.bedrooms = criteria.bedrooms)

\* whether row a comes before row b under ORDER BY created_at DESC; two rows stamped
\* at the same instant of the model were inserted in id order, the later one last
newerThan(a, b) ==
    \/ a.created_at > b.created_at
    \/ a.created_at = b.created_at /\ a.id > b.id

\* ORDER BY created_at DESC over a set of rows
RECURSIVE orderByCreatedAtDesc(_)
orderByCreatedAtDesc(rows) ==
    IF rows = {} THEN <<>>
    ELSE LET first == CHOOSE r \in rows : \A o \in rows \ {r} : newerThan(r, o)
         IN  <<first>> \o orderByCreatedAtDesc(rows \ {first})

LimitRows == 10

\* Property.findByCriteria over the table, when its query succeeds
findByCriteria(table, criteria) ==
    slice(orderByCreatedAtDesc({table[i] : i \in {j \in DOMAIN table :
                                                    whereClause(table[j], criteria)}}),
          LimitRows)

\* the criteria object a caller builds, with the fields it leaves out absent
Criteria(location, propertyType, minPrice, maxPrice, bedrooms, amenities) ==
    [location |-> location, propertyType |-> propertyType, minPrice |-> minPrice,
     maxPrice |-> maxPrice, bedrooms |-> bedrooms, amenities |-> amenities]

(***************************************************************************)
(* matchingService.js: findMatches.                                        *)
(***************************************************************************)
\* the object the map at lines 567-579 builds for one row: the row, its matchScore
\* read at clock t and its breakdown read at clock tb
scoreProperty(row, criteria, t, tb) ==
    [id |-> row.id, type |-> row.type, location |-> row.location, price |-> row.price,
     bedrooms |-> row.bedrooms, amenities |-> row.amenities, verified |-> row.verified,
     status |-> row.status, created_at |-> row.created_at, user_id |-> row.user_id,
     matchScore |-> calculateMatchScore(row, criteria, t),
     scoreBreakdown |-> subScores(row, criteria, tb)]

\* an insertion that puts an element before the elements it ties with
insertBeforeTies(sorted, p) ==
    LET before == Cardinality({i \in DOMAIN sorted : sorted[i].matchScore > p.matchScore})
    IN  SubSeq(sorted, 1, before) \o <<p>> \o SubSeq(sorted, before + 1, Len(sorted))

\* where Array.prototype.sort's comparator (b.matchScore - a.matchScore) puts one more
\* element: after every element that does not score less.  The sort is stable
\* (ECMAScript 2019; insertion sort for the at most 10 rows of a query before that).
insertByMatchScore(sorted, p) ==
    LET before == Cardinality({i \in DOMAIN sorted : sorted[i].matchScore >= p.matchScore})
    IN  SubSeq(sorted, 1, before) \o <<p>> \o SubSeq(sorted, before + 1, Len(sorted))

RECURSIVE sortByMatchScore(_, _)
sortByMatchScore(scoredProperties, n) ==
    IF n = 0 THEN <<>>
    ELSE insertByMatchScore(sortByMatchScore(scoredProperties, n - 1), scoredProperties[n])

\* no filter at all
allMatches(scoredProperties) == scoredProperties

MinMatchScore == 40

\* scoredProperties.filter(p => p.matchScore >= 40)
goodMatches(scoredProperties) ==
    SelectSeq(scoredProperties, LAMBDA p : p.matchScore >= MinMatchScore)

\* findMatches on the rows its repository query returned
rankMatches(rows, criteria, t, tb) ==
    LET scoredProperties == [i \in DOMAIN rows |-> scoreProperty(rows[i], criteria, t, tb)]
    IN  goodMatches(sortByMatchScore(scoredProperties, Len(scoredProperties)))

\* findMatches on the rows of its query when the clock passes from t to later while
\* the map is at row k, between that row's matchScore and its scoreBreakdown
rankMatchesDuring(rows, criteria, t, later, k) ==
    LET scoredProperties == [i \in DOMAIN rows |->
                                scoreProperty(rows[i], criteria,
                                              IF i <= k THEN t ELSE later,
                                              IF i < k THEN t ELSE later)]
    IN  goodMatches(sortByMatchScore(scoredProperties, Len(scoredProperties)))

\* findMatches: the one repository query, with the five coarse filters, then the ranking
findMatches(table, criteria, t) ==
    rankMatches(findByCriteria(table, Criteria(criteria.location, criteria.propertyType,
                                               criteria.minPrice, criteria.maxPrice,
                                               criteria.bedrooms, <<>>)),
                criteria, t, t)

(***************************************************************************)
(* matchingService.js: getSmartSuggestions.  The four queries are numbered *)
(* in the order the code issues them.                                      *)
(***************************************************************************)
NearbyQuery == 1
CheaperQuery == 2
PremiumQuery == 3
RelaxedQuery == 4

\* the index of the first "," of s at or after position i, or 0
RECURSIVE commaFrom(_, _)
commaFrom(s, i) ==
    IF i > Len(s) THEN 0
    ELSE IF CharAt(s, i) = "," THEN i
    ELSE commaFrom(s, i + 1)

\* location.split(',')[1]?.trim() || location
cityOf(location) ==
    LET c1 == commaFrom(location, 1)
        c2 == IF c1 = 0 THEN 0 ELSE commaFrom(location, c1 + 1)
        part == IF c1 = 0 THEN ""
                ELSE trim(SubSeq(location, c1 + 1, IF c2 = 0 THEN Len(location) ELSE c2 - 1))
    IN  IF part = "" THEN location ELSE part

\* criteria.maxPrice * tenths / 10, for a maximum that is a multiple of 10
scalePrice(price, tenths) == (price * tenths) \div 10

\* the criteria of each of the four queries
suggestionQuery(q, criteria) ==
    IF q = NearbyQuery
    THEN Criteria(cityOf(criteria.location), "", 0, criteria.maxPrice, criteria.bedrooms, <<>>)
    ELSE IF q = CheaperQuery
    THEN Criteria(criteria.location, "", 0, scalePrice(criteria.maxPrice, 8),
                  criteria.bedrooms, <<>>)
    ELSE IF q = PremiumQuery
    THEN Criteria(criteria.location, "", criteria.maxPrice, scalePrice(criteria.maxPrice, 12),
                  criteria.bedrooms, <<>>)
    ELSE Criteria(criteria.location, "", 0, criteria.maxPrice, criteria.bedrooms - 1, <<>>)

\* whether getSmartSuggestions issues query q for this criteria
suggestionAsked(q, criteria) ==
    IF q = NearbyQuery THEN criteria.location # ""
    ELSE IF q = RelaxedQuery THEN criteria.bedrooms # 0 /\ criteria.bedrooms > 1
    ELSE criteria.maxPrice # 0

SuggestionCap == 3

\* the rows of every query sliced alike, none of them filtered
suggestionListUnfiltered(q, rows, criteria) == slice(rows, SuggestionCap)

\* the filter of nearbyAreas comparing the strings as they are written
suggestionListCased(q, rows, criteria) ==
    IF q = NearbyQuery
    THEN slice(SelectSeq(rows, LAMBDA p : ~includes(p.location, criteria.location)),
               SuggestionCap)
    ELSE slice(rows, SuggestionCap)

\* what a query's rows become in the suggestions object
suggestionList(q, rows, criteria) ==
    IF q = NearbyQuery
    THEN slice(SelectSeq(rows, LAMBDA p : ~includes(toLowerCase(p.location),
                                                   toLowerCase(criteria.location))),
               SuggestionCap)
    ELSE slice(rows, SuggestionCap)

noSuggestions ==
    [nearbyAreas |-> <<>>, cheaperOptions |-> <<>>, premiumOptions |-> <<>>,
     relaxedCriteria |-> [set |-> FALSE, bedrooms |-> 0, properties |-> <<>>]]

\* the suggestions object after query q has returned its rows
withSuggestion(suggestions, q, list, criteria) ==
    IF q = NearbyQuery THEN [suggestions EXCEPT !.nearbyAreas = list]
    ELSE IF q = CheaperQuery THEN [suggestions EXCEPT !.cheaperOptions = list]
    ELSE IF q = PremiumQuery THEN [suggestions EXCEPT !.premiumOptions = list]
    ELSE [suggestions EXCEPT !.relaxedCriteria =
              [set |-> TRUE, bedrooms |-> criteria.bedrooms - 1, properties |-> list]]

\* the body of the try block from query q on; failing is the set of queries whose
\* repository call throws: the first of them that is issued ends in the catch, which
\* returns the suggestions gathered so far
RECURSIVE suggestFrom(_, _, _, _, _)
suggestFrom(q, suggestions, table, criteria, failing) ==
    IF q > RelaxedQuery THEN suggestions
    ELSE IF ~suggestionAsked(q, criteria)
         THEN suggestFrom(q + 1, suggestions, table, criteria, failing)
    ELSE IF q \in failing THEN suggestions
    ELSE suggestFrom(q + 1,
                     withSuggestion(suggestions, q,
                                    suggestionList(q, findByCriteria(table,
                                                          suggestionQuery(q, criteria)),
                                                   criteria),
                                    criteria),
                     table, criteria, failing)

getSmartSuggestions(table, criteria, failing) ==
    suggestFrom(NearbyQuery, noSuggestions, table, criteria, failing)

\* the criteria object {}
NoCriteria == Criteria("", "", 0, 0, 0, <<>>)

(***************************************************************************)
(* aiService.js: the chat pipeline.  What the model (Gemini) answers is an *)
(* input of each step: an intent keyword or a failure, and for the         *)
(* entities a JSON object, a falsy JSON scalar or a failure.  A missing    *)
(* API key is the failure of the first call.                               *)
(***************************************************************************)
\* the entities value {}: an object without fields
NoEntities == [kind |-> "object", fields |-> NoCriteria]

\* the aliases extractEntities replaces a location by, in the order of the object
locationAliases ==
    <<[alias |-> "gra", full |-> "Gwarinpa"],
      [alias |-> "v.i", full |-> "Victoria Island"],
      [alias |-> "vi", full |-> "Victoria Island"],
      [alias |-> "wuse", full |-> "Wuse 2"],
      [alias |-> "leki", full |-> "Lekki"],
      [alias |-> "ikoyi", full |-> "Ikoyi"]>>

\* the loop over Object.entries(locationAliases) from entry k on
RECURSIVE expandAlias(_, _)
expandAlias(location, k) ==
    IF k > Len(locationAliases) THEN location
    ELSE IF includes(toLowerCase(location), locationAliases[k].alias)
         THEN locationAliases[k].full
    ELSE expandAlias(location, k + 1)

\* extractEntities for a reply that did not fail: {} unless the intent is a search;
\* a scalar has no location to expand
extractEntities(intent, reply) ==
    IF intent \notin {"search", "show_more"} THEN NoEntities
    ELSE IF reply.kind = "object" /\ reply.fields.location # ""
         THEN [reply EXCEPT !.fields.location = expandAlias(reply.fields.location, 1)]
    ELSE reply

\* the criteria the matching service reads from an entities value: every field of a
\* scalar is undefined
criteriaOf(entities) ==
    IF entities.kind = "object" THEN entities.fields ELSE NoCriteria

\* whether a JSON value is truthy to the page: every object is, {} included
truthy(entities) == entities.kind = "object"

\* the outcome of a chat step before any message
NoChat ==
    [called |-> FALSE, intent |-> "", raised |-> "no", entities |-> NoEntities,
     text |-> "", ranked |-> FALSE, matches |-> <<>>, suggested |-> FALSE,
     suggestions |-> noSuggestions]

\* generateResponse; text names the reply: "results" is the property_results object
generateResponse(chat, table, t) ==
    IF chat.intent = "greeting" THEN [chat EXCEPT !.text = "greeting"]
    ELSE IF chat.intent \in {"search", "show_more"}
    THEN LET found == findMatches(table, criteriaOf(chat.entities), t)
             suggestions == getSmartSuggestions(table, criteriaOf(chat.entities), {})
         IN  IF Len(found) = 0
             THEN [chat EXCEPT !.ranked = TRUE, !.suggested = TRUE,
                               !.suggestions = suggestions,
                               !.text = IF Len(suggestions.nearbyAreas) > 0 THEN "nearby"
                                        ELSE IF Len(suggestions.cheaperOptions) > 0
                                             THEN "cheaper"
                                        ELSE "try"]
             ELSE [chat EXCEPT !.ranked = TRUE, !.matches = found, !.text = "results"]
    ELSE [chat EXCEPT !.text = "help"]

\* processMessage: determineIntent, extractEntities, generateResponse; the catch
\* answers intent 'error' with entities {} when either call to the model raised
processMessage(intentReply, entityReply, table, t) ==
    IF intentReply = "raise"
    THEN [NoChat EXCEPT !.called = TRUE, !.intent = "error", !.raised = "intent",
                        !.text = "sorry"]
    ELSE IF intentReply \in {"search", "show_more"} /\ entityReply.kind = "raise"
    THEN [NoChat EXCEPT !.called = TRUE, !.intent = "error", !.raised = "entities",
                        !.text = "sorry"]
    ELSE generateResponse([NoChat EXCEPT !.called = TRUE, !.intent = intentReply,
                                         !.entities = extractEntities(intentReply,
                                                                      entityReply)],
                          table, t)

MaxContext == 5

\* saveContext dropping the entry it has just pushed (pop) instead of the oldest
saveContextKeepOldest(context, phone, entry) ==
    LET pushed == Append(context[phone], entry)
    IN  [context EXCEPT ![phone] = IF Len(pushed) > MaxContext
                                   THEN SubSeq(pushed, 1, MaxContext)
                                   ELSE pushed]

\* saveContext: push, then shift when more than 5 entries are kept
saveContext(context, phone, entry) ==
    LET pushed == Append(context[phone], entry)
    IN  [context EXCEPT ![phone] = IF Len(pushed) > MaxContext THEN Tail(pushed)
                                   ELSE pushed]

\* clearContext: conversationContext.delete(phone), after which get(phone) || [] is []
clearContext(context, phone) == [context EXCEPT ![phone] = <<>>]

\* the Map after processMessage: the catch saves nothing
contextAfter(context, phone, message, chat) ==
    IF chat.raised # "no" THEN context
    ELSE saveContext(context, phone, [message |-> message, intent |-> chat.intent])

(***************************************************************************)
(* frontend/app.js: parseQueryManually and parsePrice.  A regular          *)
(* expression is modelled by the leftmost match it finds and the groups of *)
(* that match; the only white space of the model's strings is the space.   *)
(***************************************************************************)
Digits == {"0", "1", "2", "3", "4", "5", "6", "7", "8", "9"}
Letters == {UpperCase[i] : i \in DOMAIN UpperCase} \cup {LowerCase[i] : i \in DOMAIN LowerCase}
Whitespace == {" "}
\* [A-Za-z\s,]
LocationChars == Letters \cup Whitespace \cup {","}
\* [0-9\.]
NumberChars == Digits \cup {"."}
\* [KMBkmb]
UnitChars == {"K", "M", "B", "k", "m", "b"}

DigitValue ==
    [c \in Digits |-> CHOOSE v \in 0..9 :
                          c = <<"0", "1", "2", "3", "4", "5", "6", "7", "8", "9">>[v + 1]]

\* whether the character of s at i is in class
charIn(s, i, class) == i >= 1 /\ i <= Len(s) /\ CharAt(s, i) \in class

\* the last index of the longest run of class characters of s that starts at i
\* (i - 1 when there is none): what a greedy class+ or class* takes
RECURSIVE spanEnd(_, _, _)
spanEnd(s, i, class) ==
    IF charIn(s, i, class) THEN spanEnd(s, i + 1, class) ELSE i - 1

\* whether the literal w (lower case) matches s at i under the i flag
literalAt(s, i, w) ==
    /\ i >= 1
    /\ i + Len(w) - 1 <= Len(s)
    /\ toLowerCase(SubSeq(s, i, i + Len(w) - 1)) = w

NoMatch == [found |-> FALSE, group |-> "", second |-> "", unit |-> ""]
Matched(group, second, unit) ==
    [found |-> TRUE, group |-> group, second |-> second, unit |-> unit]

Least(S) == CHOOSE x \in S : \A y \in S : x <= y
Greatest(S) == CHOOSE x \in S : \A y \in S : x >= y

\* \s+([A-Za-z\s,]+) tried at j: the white space, then the longest run of the class;
\* when no class character follows the white space, the group backs up into its
\* last character
groupAfterSpace(s, j) ==
    LET e == spanEnd(s, j, Whitespace)
    IN  IF e < j THEN NoMatch
        ELSE IF charIn(s, e + 1, LocationChars)
             THEN Matched(SubSeq(s, e + 1, spanEnd(s, e + 1, LocationChars)), "", "")
        ELSE IF e > j THEN Matched(SubSeq(s, e, e), "", "")
        ELSE NoMatch

\* /word\s+([A-Za-z\s,]+)/i
matchWordThenLocation(s, word) ==
    LET starts == {i \in 1..Len(s) : /\ literalAt(s, i, word)
                                     /\ groupAfterSpace(s, i + Len(word)).found}
    IN  IF starts = {} THEN NoMatch ELSE groupAfterSpace(s, Least(starts) + Len(word))

\* the ends g at which a group begun at i can stop for \s+area to follow
areaGroupEnds(s, i) ==
    {g \in i..spanEnd(s, i, LocationChars) :
        /\ charIn(s, g + 1, Whitespace)
        /\ literalAt(s, spanEnd(s, g + 1, Whitespace) + 1, "area")}

\* /([A-Za-z\s,]+)\s+area/i
matchLocationThenArea(s) ==
    LET starts == {i \in 1..Len(s) : areaGroupEnds(s, i) # {}}
    IN  IF starts = {} THEN NoMatch
        ELSE Matched(SubSeq(s, Least(starts), Greatest(areaGroupEnds(s, Least(starts)))),
                     "", "")

\* the first of the patterns, in order, that matches
RECURSIVE firstMatch(_)
firstMatch(matches) ==
    IF Len(matches) = 0 THEN NoMatch
    ELSE IF Head(matches).found THEN Head(matches)
    ELSE firstMatch(Tail(matches))

\* /(\d+)\s*(?:bed|bedroom|br)/i, which /(\d+)\s*bedroom/i never outruns
matchBedrooms(s) ==
    LET after(i) == spanEnd(s, spanEnd(s, i, Digits) + 1, Whitespace) + 1
        starts == {i \in 1..Len(s) : /\ charIn(s, i, Digits)
                                     /\ \/ literalAt(s, after(i), "bed")
                                        \/ literalAt(s, after(i), "br")}
    IN  IF starts = {} THEN NoMatch
        ELSE Matched(SubSeq(s, Least(starts), spanEnd(s, Least(starts), Digits)), "", "")

\* /at\s+least\s+(\d+)/i
matchAtLeast(s) ==
    LET least(i) == spanEnd(s, i + 2, Whitespace) + 1
        number(i) == spanEnd(s, least(i) + 5, Whitespace) + 1
        starts == {i \in 1..Len(s) : /\ literalAt(s, i, "at")
                                     /\ charIn(s, i + 2, Whitespace)
                                     /\ literalAt(s, least(i), "least")
                                     /\ charIn(s, least(i) + 5, Whitespace)
                                     /\ charIn(s, number(i), Digits)}
    IN  IF starts = {} THEN NoMatch
        ELSE Matched(SubSeq(s, number(Least(starts)),
                            spanEnd(s, number(Least(starts)), Digits)), "", "")

\* /word\s*([0-9\.]+)([KMBkmb])/i
matchWordThenPrice(s, word) ==
    LET number(i) == spanEnd(s, i + Len(word), Whitespace) + 1
        unit(i) == spanEnd(s, number(i), NumberChars) + 1
        starts == {i \in 1..Len(s) : /\ literalAt(s, i, word)
                                     /\ charIn(s, number(i), NumberChars)
                                     /\ charIn(s, unit(i), UnitChars)}
    IN  IF starts = {} THEN NoMatch
        ELSE LET i == Least(starts)
             IN  Matched(SubSeq(s, number(i), unit(i) - 1), CharAt(s, unit(i)), "")

\* /([0-9\.]+)([KMBkmb])\s*range/i
matchPriceRange(s) ==
    LET unit(i) == spanEnd(s, i, NumberChars) + 1
        starts == {i \in 1..Len(s) :
                      /\ charIn(s, i, NumberChars)
                      /\ charIn(s, unit(i), UnitChars)
                      /\ literalAt(s, spanEnd(s, unit(i) + 1, Whitespace) + 1, "range")}
    IN  IF starts = {} THEN NoMatch
        ELSE LET i == Least(starts)
             IN  Matched(SubSeq(s, i, unit(i) - 1), CharAt(s, unit(i)), "")

\* /([0-9\.]+)-([0-9\.]+)([KMBkmb])/i: the first number may give back its last
\* characters only to a "-", which it cannot hold, so it is the whole run
matchPriceSpan(s) ==
    LET dash(i) == spanEnd(s, i, NumberChars) + 1
        unit(i) == spanEnd(s, dash(i) + 1, NumberChars) + 1
        starts == {i \in 1..Len(s) : /\ charIn(s, i, NumberChars)
                                     /\ charIn(s, dash(i), {"-"})
                                     /\ charIn(s, dash(i) + 1, NumberChars)
                                     /\ charIn(s, unit(i), UnitChars)}
    IN  IF starts = {} THEN NoMatch
        ELSE LET i == Least(starts)
             IN  Matched(SubSeq(s, i, dash(i) - 1), SubSeq(s, dash(i) + 1, unit(i) - 1),
                         CharAt(s, unit(i)))

\* the value of a run of digits
RECURSIVE digitsValue(_)
digitsValue(s) ==
    IF Len(s) = 0 THEN 0
    ELSE 10 * digitsValue(SubSeq(s, 1, Len(s) - 1)) + DigitValue[CharAt(s, Len(s))]

RECURSIVE Pow10(_)
Pow10(n) == IF n = 0 THEN 1 ELSE 10 * Pow10(n - 1)

\* parseFloat(s) * scale for s of digits and dots: the digits, and the digits after a
\* first dot; NaN (no digit at all) is read as 0, as the falsy value it is.  The
\* product is whole for every price of the model.
parseFloatTimes(s, scale) ==
    LET whole == spanEnd(s, 1, Digits)
        frac  == IF charIn(s, whole + 1, {"."}) THEN spanEnd(s, whole + 2, Digits)
                 ELSE whole + 1
        fracDigits == IF frac > whole + 1 THEN SubSeq(s, whole + 2, frac) ELSE ""
    IN  digitsValue(SubSeq(s, 1, whole)) * scale
        + (digitsValue(fracDigits) * scale) \div Pow10(Len(fracDigits))

\* parseInt(s) for s of digits
parseInt(s) == digitsValue(SubSeq(s, 1, spanEnd(s, 1, Digits)))

\* the factor of a unit letter
unitScale(unit) ==
    IF toLowerCase(unit) = "k" THEN 1000
    ELSE IF toLowerCase(unit) = "m" THEN 1000000
    ELSE 1000000000

\* parsePrice: the number and the unit that ends it, or the bare number
parsePrice(priceStr) ==
    LET unit == spanEnd(priceStr, 1, NumberChars) + 1
    IN  IF unit > 1 /\ charIn(priceStr, unit, UnitChars)
        THEN parseFloatTimes(SubSeq(priceStr, 1, unit - 1), unitScale(CharAt(priceStr, unit)))
        ELSE parseFloatTimes(priceStr, 1)

typeKeywords == <<"flat", "apartment", "house", "duplex", "bungalow", "penthouse", "studio">>

\* /(flat|apartment|house|duplex|bungalow|penthouse|studio)/i: the text matched
matchType(s) ==
    LET at(i) == {k \in DOMAIN typeKeywords : literalAt(s, i, typeKeywords[k])}
        starts == {i \in 1..Len(s) : at(i) # {}}
    IN  IF starts = {} THEN NoMatch
        ELSE LET i == Least(starts)
             IN  Matched(SubSeq(s, i, i + Len(typeKeywords[Least(at(i))]) - 1), "", "")

amenityKeywords ==
    <<"parking", "gym", "pool", "security", "generator", "power", "water", "garden",
      "balcony">>

parseQueryManually(query) ==
    LET location == firstMatch(<<matchWordThenLocation(query, "in"),
                                 matchWordThenLocation(query, "at"),
                                 matchLocationThenArea(query)>>)
        bedrooms == firstMatch(<<matchBedrooms(query), matchAtLeast(query)>>)
        price == firstMatch(<<matchWordThenPrice(query, "under"),
                              matchWordThenPrice(query, "below"),
                              matchPriceRange(query), matchPriceSpan(query)>>)
        type == matchType(query)
    IN  Criteria(IF location.found THEN trim(location.group) ELSE "",
                 IF type.found THEN type.group ELSE "",
                 0,
                 IF price.found THEN parsePrice(price.group \o price.second) ELSE 0,
                 IF bedrooms.found THEN parseInt(bedrooms.group) ELSE 0,
                 SelectSeq(amenityKeywords, LAMBDA amenity : includes(toLowerCase(query),
                                                                      amenity)))

(***************************************************************************)
(* frontend/api.js and GET /properties/search: a search request.           *)
(***************************************************************************)
DigitChars == <<"0", "1", "2", "3", "4", "5", "6", "7", "8", "9">>

\* String(n) for a whole n >= 0
RECURSIVE numberToString(_)
numberToString(n) ==
    IF n < 10 THEN DigitChars[n + 1]
    ELSE numberToString(n \div 10) \o DigitChars[(n % 10) + 1]

\* API.properties.search: the query string, a parameter for each truthy field; the
\* amenities are not sent.  "" is a parameter left out.
searchParams(criteria) ==
    [location |-> criteria.location,
     maxPrice |-> IF criteria.maxPrice # 0 THEN numberToString(criteria.maxPrice) ELSE "",
     minPrice |-> IF criteria.minPrice # 0 THEN numberToString(criteria.minPrice) ELSE "",
     bedrooms |-> IF criteria.bedrooms # 0 THEN numberToString(criteria.bedrooms) ELSE "",
     propertyType |-> criteria.propertyType]

\* router.get('/search'): the criteria built from req.query
routeCriteria(params) ==
    Criteria(params.location, params.propertyType,
             IF params.minPrice # "" THEN parseFloatTimes(params.minPrice, 1) ELSE 0,
             IF params.maxPrice # "" THEN parseFloatTimes(params.maxPrice, 1) ELSE 0,
             IF params.bedrooms # "" THEN parseInt(params.bedrooms) ELSE 0,
             <<>>)

\* router.get('/search'): what the route answers, added to the record base; it
\* answers the list findMatches returned, whatever its length
searchAnswer(base, params, table, t) ==
    [base EXCEPT !.searched = TRUE,
                 !.criteria = routeCriteria(params),
                 !.rows = findByCriteria(table, routeCriteria(params)),
                 !.matches = findMatches(table, routeCriteria(params), t)]

(***************************************************************************)
(* services/authService.js: sendOTP, verifyOTP and cleanupExpiredOTPs.     *)
(* Each awaited query is one step, so calls in flight interleave at their  *)
(* queries.  A row of otp_codes is [id, phone, code, expires_at, verified, *)
(* created_at]; a row of users is [id, phone, role, verified] (the columns *)
(* no statement of the service reads back are left out).  The clock of     *)
(* this service is counted in minutes.  A call id stands for one call:     *)
(* MaxCalls calls are made in all, started in the order of their ids.      *)
(***************************************************************************)
MaxCalls == 3
MaxOtps == 2

\* the minutes at which the clock is read: a code issued at minute 0 expires at 5
AuthInstants == {0, 5, 6}

\* 5 * 60 * 1000 milliseconds
OtpMinutes == 5

\* 30 * 24 * 60 * 60 * 1000 milliseconds
TokenMinutes == 43200

\* the phone numbers and codes of the requests: one number the format accepts and
\* one it does not; the codes generateOTP may draw
AuthPhones == {"+2348012345678", "08012345678"}
OtpCodes == {"123456", "654321"}

\* /^\+234\d{10}$/.test(phone)
phoneRegex(phone) ==
    /\ Len(phone) = 14
    /\ SubSeq(phone, 1, 4) = "+234"
    /\ \A i \in 5..14 : CharAt(phone, i) \in Digits

NoOtp == [id |-> 0, phone |-> "", code |-> "", expires_at |-> 0, verified |-> FALSE,
          created_at |-> 0]

NoToken == [userId |-> 0, phone |-> "", role |-> "", exp |-> 0]

\* generateToken(user): the payload that is encoded
generateToken(user, t) ==
    [userId |-> user.id, phone |-> user.phone, role |-> user.role, exp |-> t + TokenMinutes]

\* a call not yet made: its locals and what it returned ("none" so far, "true" or
\* "false" for success, "thrown" when it threw)
IdleCall ==
    [op |-> "none", pc |-> "idle", phone |-> "", code |-> "", expiresAt |-> 0,
     otp |-> NoOtp, selectedAt |-> 0, userFound |-> FALSE,
     success |-> "none", token |-> NoToken]

CallIds == 1..MaxCalls

\* call c is the next to be made
nextCall(c) ==
    /\ authCalls[c].op = "none"
    /\ \A d \in CallIds : d < c => authCalls[d].op # "none"

\* no code issued, no user, no call made
AuthIdle ==
    /\ otp_codes = {}
    /\ users = {}
    /\ nextOtpId = 1
    /\ nextUserId = 1
    /\ authCalls = [c \in CallIds |-> IdleCall]
    /\ minute = 0

\* what the steps of the authentication service leave alone
listingVars == <<now, scoreVars, properties, nextId, approvedIds, response,
                 conversationContext, pageVars>>

\* sendOTP up to its first query: the format test, generateOTP and the expiry time
SendOTPStart(c) ==
    /\ nextCall(c)
    /\ \E phone \in AuthPhones, code \in OtpCodes :
           authCalls' = [authCalls EXCEPT ![c] =
               IF phoneRegex(phone)
               THEN [IdleCall EXCEPT !.op = "sendOTP", !.pc = "delete", !.phone = phone,
                                     !.code = code, !.expiresAt = minute + OtpMinutes]
               ELSE [IdleCall EXCEPT !.op = "sendOTP", !.pc = "done", !.phone = phone,
                                     !.success = "thrown"]]
    /\ UNCHANGED <<listingVars, otp_codes, users, nextOtpId, nextUserId, minute>>

\* DELETE FROM otp_codes WHERE phone = $1 AND verified = false
SendOTPDelete(c) ==
    /\ authCalls[c].op = "sendOTP" /\ authCalls[c].pc = "delete"
    /\ otp_codes' = {r \in otp_codes : ~(r.phone = authCalls[c].phone /\ ~r.verified)}
    /\ authCalls' = [authCalls EXCEPT ![c].pc = "insert"]
    /\ UNCHANGED <<listingVars, users, nextOtpId, nextUserId, minute>>

\* INSERT INTO otp_codes (phone, code, expires_at), and the answer of sendOTP
SendOTPInsert(c) ==
    /\ authCalls[c].op = "sendOTP" /\ authCalls[c].pc = "insert"
    /\ nextOtpId <= MaxOtps
    /\ otp_codes' = otp_codes \cup
           {[id |-> nextOtpId, phone |-> authCalls[c].phone, code |-> authCalls[c].code,
             expires_at |-> authCalls[c].expiresAt, verified |-> FALSE,
             created_at |-> minute]}
    /\ nextOtpId' = nextOtpId + 1
    /\ authCalls' = [authCalls EXCEPT ![c].pc = "done", ![c].success = "true"]
    /\ UNCHANGED <<listingVars, users, nextUserId, minute>>

\* verifyOTP(phone, code) is called
VerifyOTPStart(c) ==
    /\ nextCall(c)
    /\ \E phone \in AuthPhones, code \in OtpCodes :
           authCalls' = [authCalls EXCEPT ![c] =
               [IdleCall EXCEPT !.op = "verifyOTP", !.pc = "select", !.phone = phone,
                                !.code = code]]
    /\ UNCHANGED <<listingVars, otp_codes, users, nextOtpId, nextUserId, minute>>

\* the WHERE clause without its test of expires_at
validOtpsNoExpiry(table, phone, code, t) ==
    {r \in table : r.phone = phone /\ r.code = code /\ ~r.verified}

\* WHERE phone = $1 AND code = $2 AND verified = false AND expires_at > NOW()
validOtps(table, phone, code, t) ==
    {r \in table : r.phone = phone /\ r.code = code /\ ~r.verified /\ r.expires_at > t}

\* ORDER BY created_at DESC LIMIT 1: the rows that may come first
latestOtps(rows) == {r \in rows : \A q \in rows : q.created_at <= r.created_at}

\* the SELECT of verifyOTP; with no row the call answers success: false
VerifyOTPSelect(c) ==
    /\ authCalls[c].op = "verifyOTP" /\ authCalls[c].pc = "select"
    /\ LET rows == validOtps(otp_codes, authCalls[c].phone, authCalls[c].code, minute)
       IN  IF rows = {}
           THEN authCalls' = [authCalls EXCEPT ![c].pc = "done", ![c].success = "false",
                                               ![c].selectedAt = minute]
           ELSE \E row \in latestOtps(rows) :
                    authCalls' = [authCalls EXCEPT ![c].pc = "mark", ![c].otp = row,
                                                   ![c].selectedAt = minute]
    /\ UNCHANGED <<listingVars, otp_codes, users, nextOtpId, nextUserId, minute>>

\* UPDATE otp_codes SET verified = true WHERE id = $1
VerifyOTPMark(c) ==
    /\ authCalls[c].op = "verifyOTP" /\ authCalls[c].pc = "mark"
    /\ otp_codes' = {IF r.id = authCalls[c].otp.id THEN [r EXCEPT !.verified = TRUE] ELSE r :
                        r \in otp_codes}
    /\ authCalls' = [authCalls EXCEPT ![c].pc = "findUser"]
    /\ UNCHANGED <<listingVars, users, nextOtpId, nextUserId, minute>>

\* SELECT * FROM users WHERE phone = $1
VerifyOTPFindUser(c) ==
    /\ authCalls[c].op = "verifyOTP" /\ authCalls[c].pc = "findUser"
    /\ authCalls' = [authCalls EXCEPT
                        ![c].pc = "saveUser",
                        ![c].userFound = (\E u \in users : u.phone = authCalls[c].phone)]
    /\ UNCHANGED <<listingVars, otp_codes, users, nextOtpId, nextUserId, minute>>

\* the INSERT or the UPDATE of users, generateToken and the answer of verifyOTP; the
\* INSERT of a phone another call has inserted meanwhile breaks UNIQUE (phone) and
\* the call throws
VerifyOTPSaveUser(c) ==
    /\ authCalls[c].op = "verifyOTP" /\ authCalls[c].pc = "saveUser"
    /\ LET phone == authCalls[c].phone
           inserted == [id |-> nextUserId, phone |-> phone, role |-> "user",
                        verified |-> TRUE]
       IN  IF ~authCalls[c].userFound
           THEN IF \E u \in users : u.phone = phone
                THEN /\ authCalls' = [authCalls EXCEPT ![c].pc = "done",
                                                       ![c].success = "thrown"]
                     /\ UNCHANGED <<users, nextUserId>>
                ELSE /\ users' = users \cup {inserted}
                     /\ nextUserId' = nextUserId + 1
                     /\ authCalls' = [authCalls EXCEPT
                                         ![c].pc = "done", ![c].success = "true",
                                         ![c].token = generateToken(inserted, minute)]
           ELSE /\ users' = {IF u.phone = phone
                             THEN [u EXCEPT !.verified = TRUE]
                             ELSE u : u \in users}
                /\ nextUserId' = nextUserId
                /\ \E user \in {u \in users' : u.phone = phone} :
                       authCalls' = [authCalls EXCEPT
                                        ![c].pc = "done", ![c].success = "true",
                                        ![c].token = generateToken(user, minute)]
    /\ UNCHANGED <<listingVars, otp_codes, nextOtpId, minute>>

\* DELETE FROM otp_codes WHERE expires_at < NOW()
CleanupExpiredOTPs ==
    /\ \E r \in otp_codes : r.expires_at < minute
    /\ otp_codes' = {r \in otp_codes : ~(r.expires_at < minute)}
    /\ UNCHANGED <<listingVars, users, nextOtpId, nextUserId, authCalls, minute>>

\* time passes
AuthTick ==
    /\ \E t \in AuthInstants : t > minute /\ minute' = t
    /\ UNCHANGED <<listingVars, otp_codes, users, nextOtpId, nextUserId, authCalls>>

SendOTP == \E c \in CallIds : SendOTPStart(c) \/ SendOTPDelete(c) \/ SendOTPInsert(c)

VerifyOTP ==
    \E c \in CallIds :
        \/ VerifyOTPStart(c)
        \/ VerifyOTPSelect(c)
        \/ VerifyOTPMark(c)
        \/ VerifyOTPFindUser(c)
        \/ VerifyOTPSaveUser(c)

NextAuth == SendOTP \/ VerifyOTP \/ CleanupExpiredOTPs \/ AuthTick

(***************************************************************************)
(* What a step returns to its caller.                                      *)
(***************************************************************************)
NoResponse ==
    [kind |-> "none", criteria |-> NoCriteria, rows |-> <<>>, matches |-> <<>>,
     failing |-> {}, suggested |-> FALSE, suggestions |-> noSuggestions,
     message |-> "", chat |-> NoChat, parsedManually |-> FALSE, searched |-> FALSE,
     screen |-> "", dbError |-> "none", thrown |-> "none", queried |-> 0,
     returned |-> FALSE, phone |-> ""]

\* the phone numbers that chat: the one the page sends for a visitor not signed in
Phones == {"+234"}

\* the Map after module load: conversationContext.get(phone) is undefined, read as []
NoContext == [phone \in Phones |-> <<>>]

\* localStorage.getItem('user') and AuthState.user when nothing is stored
NoUser == [id |-> 0, phone |-> "", role |-> "", verified |-> FALSE]

\* localStorage without the items authToken and user
NoStorage == [authToken |-> NoToken, user |-> NoUser]

\* the page as its scripts load it: AppState and AuthState as declared, nothing
\* stored, no request in flight and no timer set
PageIdle ==
    /\ currentScreen = "home"
    /\ screenHistory = <<"home">>
    /\ localStorage = NoStorage
    /\ AuthState = [currentPhone |-> "", isAuthenticated |-> FALSE, user |-> NoUser]
    /\ pending = [call |-> 0, redirect |-> FALSE]

\* no listing stored and nothing returned: the state of the store in the harnesses
\* that do not use it
StoreIdle ==
    /\ properties = <<>>
    /\ nextId = 1
    /\ approvedIds = {}
    /\ response = NoResponse
    /\ conversationContext = NoContext
    /\ AuthIdle
    /\ PageIdle

(***************************************************************************)
(* The clock.  It is read at the instants at which a listing's age can     *)
(* change bracket (7, 14, 30 and 60 days after time 0) and just after.     *)
(***************************************************************************)
Instants == {0, 7, 8, 14, 15, 30, 31, 60, 61, 65}

Tick ==
    /\ \E t \in Instants : t > now /\ now' = t
    /\ response' = NoResponse
    /\ UNCHANGED <<scoreVars, storeVars>>

(***************************************************************************)
(* Scorer harness: calculateMatchScore applied to a listing and a criteria *)
(* drawn from bounded sets, every field present or absent.                 *)
(***************************************************************************)
PropertyLocations == {"", "Wuse 2, Abuja", "Government Reserved Area"}
CriteriaLocations == {"", "Wuse 2", "GRA", "Garki, Abuja"}
PropertyPrices == {0, 2400000, 2700000, 3000000, 3300000, 3600000, 3700000}
PriceRanges == {<<0, 0>>, <<0, 3000000>>, <<2000000, 3000000>>, <<2000000, 0>>}
PropertyAmenities == {<<>>, <<"Parking", "Swimming Pool", "24hr Power">>}
CriteriaAmenities == {<<>>, <<"pool">>, <<"pool", "gym", "parking">>}
CreatedAts == {0, NoDate}

ScoreProperties ==
    [location : PropertyLocations, price : PropertyPrices, amenities : PropertyAmenities,
     verified : BOOLEAN, created_at : CreatedAts, user_id : {1}]

ScoreCriteria ==
    {[location |-> l, minPrice |-> r[1], maxPrice |-> r[2], amenities |-> a] :
        l \in CriteriaLocations, r \in PriceRanges, a \in CriteriaAmenities}

NoCall == [called |-> FALSE, at |-> 0, matchScore |-> 0,
           breakdown |-> [k \in {weightKeys[i] : i \in DOMAIN weightKeys} |-> 0]]

\* the instants at which the scorer harness makes its call: one in each age bracket
ScoreInstants == {0, 8, 15, 31, 61}

InitScore ==
    /\ now \in ScoreInstants
    /\ sProperty \in ScoreProperties
    /\ sCriteria \in ScoreCriteria
    /\ scored = NoCall
    /\ scoredBefore = NoCall
    /\ StoreIdle

\* one invocation of calculateMatchScore(sProperty, sCriteria) at the current clock;
\* the sub-scores are kept beside the result
ScoreCall ==
    /\ scored' = [called |-> TRUE, at |-> now,
                  matchScore |-> calculateMatchScore(sProperty, sCriteria, now),
                  breakdown |-> subScores(sProperty, sCriteria, now)]
    /\ scoredBefore' = scored
    /\ UNCHANGED <<now, sProperty, sCriteria, storeVars, response>>

NextScore == ScoreCall

SpecScore == InitScore /\ [][NextScore]_vars

(***************************************************************************)
(* Clock harness: the same listing scored again as the clock advances.     *)
(***************************************************************************)
ClockProperties ==
    [location : {"Wuse 2, Abuja"}, price : {2700000, 3300000},
     amenities : PropertyAmenities, verified : BOOLEAN, created_at : CreatedAts,
     user_id : {1}]

ClockCriteria ==
    {[location |-> l, minPrice |-> 0, maxPrice |-> 3000000, amenities |-> a] :
        l \in {"", "Wuse 2"}, a \in {<<>>, <<"pool">>}}

InitClock ==
    /\ now = 0
    /\ sProperty \in ClockProperties
    /\ sCriteria \in ClockCriteria
    /\ scored = NoCall
    /\ scoredBefore = NoCall
    /\ StoreIdle

NextClock == Tick \/ ScoreCall

SpecClock == InitClock /\ [][NextClock]_vars

(***************************************************************************)
(* Location harness: calculateLocationScore over pairs of location strings *)
(* of every tier (containment, alias, same city, no match, unset).         *)
(***************************************************************************)
LocationStrings ==
    {"", "Lekki", "Lekki Phase 1", " wuse 2 ", "Wuse Zone 5", "Wuse Zone 5, Abuja", "vi", "V.I",
     "Victoria Island, Lagos", "GRA", "Government Reserved Area",
     "Garki, Abuja", "Ikeja, Lagos", "Wuse 2, Abuja"}

InitLocation ==
    /\ now = 0
    /\ sProperty \in [location : LocationStrings, price : {2700000}, amenities : {<<>>},
                      verified : {TRUE}, created_at : {0}, user_id : {1}]
    /\ sCriteria \in [location : LocationStrings, minPrice : {0}, maxPrice : {3000000},
                      amenities : {<<>>}]
    /\ scored = NoCall
    /\ scoredBefore = NoCall
    /\ StoreIdle

SpecLocation == InitLocation /\ [][NextScore]_vars

(***************************************************************************)
(* Claims about the scorer.                                                *)
(***************************************************************************)

\* C1: for every listing and every criteria, each field present or absent,
\* calculateMatchScore returns an integer between 0 and 100 inclusive.
ThmC1_ScoreInRange ==
    scored.called => scored.matchScore \in 0..100

\* C1 witness: every optional field absent or unmatched and the listing old and
\* unverified; the score computed is the lowest one, 14.
WitC1_LowestScore ==
    /\ scored.called
    /\ sCriteria.location = "" /\ sCriteria.maxPrice = 0
    /\ sProperty.price = 0 /\ sProperty.amenities = <<>> /\ sCriteria.amenities # <<>>
    /\ ~sProperty.verified /\ scored.at = 61 /\ sProperty.created_at = 0
    /\ scored.matchScore = 14

\* C2: the score is round((30*location + 25*price + 20*amenities + 10*condition +
\* 10*responsiveness + 5*freshness) / 100) over the six sub-scores; the weights sum
\* to 100; responsiveness is 80 for every listing; the sub-scores
\* (100, 95, 100, 100, 80, 100) give 97.
ThmC2_WeightedSum ==
    scored.called =>
        LET b == scored.breakdown
            total == 30 * b.location + 25 * b.price + 20 * b.amenities
                     + 10 * b.condition + 10 * b.responsiveness + 5 * b.freshness
        IN  /\ 100 * scored.matchScore <= total + 50
            /\ total + 50 < 100 * (scored.matchScore + 1)
            /\ b.responsiveness = 80
            /\ weights.location + weights.price + weights.amenities + weights.condition
               + weights.responsiveness + weights.freshness = 100
            /\ (b = [location |-> 100, price |-> 95, amenities |-> 100, condition |-> 100,
                     responsiveness |-> 80, freshness |-> 100] => scored.matchScore = 97)

\* C2 witness: the scenario of sub-scores (100, 95, 100, 100, 80, 100).
WitC2_Scenario97 ==
    /\ scored.called
    /\ scored.breakdown = [location |-> 100, price |-> 95, amenities |-> 100,
                           condition |-> 100, responsiveness |-> 80, freshness |-> 100]
    /\ scored.matchScore = 97

\* C14: whichever of location, price, amenities, created_at, verified, minPrice and
\* maxPrice are absent, calculateMatchScore returns a score, and each sub-score
\* takes its default: location 0 when either location is unset, price 0 when the
\* listing has no price or the criteria no maximum, amenities 100 when none is
\* requested and 0 when some are requested and the listing has none.
ThmC14_AbsentFieldsDefault ==
    scored.called =>
        LET b == scored.breakdown
        IN  /\ scored.matchScore \in 0..100
            /\ \A k \in DOMAIN b : b[k] \in 0..100
            /\ (sCriteria.location = "" \/ sProperty.location = "") => b.location = 0
            /\ (sProperty.price = 0 \/ sCriteria.maxPrice = 0) => b.price = 0
            /\ (sCriteria.amenities = <<>>) => b.amenities = 100
            /\ (sCriteria.amenities # <<>> /\ sProperty.amenities = <<>>) => b.amenities = 0
            /\ (sProperty.created_at = NoDate)
                   => /\ b.condition = (IF sProperty.verified THEN 100 ELSE 60)
                      /\ b.freshness = 30

\* C14 witness: a listing and a criteria with every optional field absent, scored
\* 36 from the sub-scores (0, 0, 100, 60, 80, 30).
WitC14_EverythingAbsent ==
    /\ scored.called
    /\ sCriteria.location = "" /\ sProperty.location = ""
    /\ sCriteria.minPrice = 0 /\ sCriteria.maxPrice = 0 /\ sProperty.price = 0
    /\ sCriteria.amenities = <<>> /\ sProperty.amenities = <<>>
    /\ sProperty.created_at = NoDate /\ ~sProperty.verified
    /\ scored.breakdown = [location |-> 0, price |-> 0, amenities |-> 100,
                           condition |-> 60, responsiveness |-> 80, freshness |-> 30]
    /\ scored.matchScore = 36

\* the tiers of the location score over two strings a and b already normalised:
\* 100 when one contains the other, else 90 when one contains an alias key and the
\* other one of that key's values, else 50 when both contain the same city, else 0
LocationTier(a, b) ==
    LET contained == includes(a, b) \/ includes(b, a)
        aliased == \E k \in DOMAIN aliases :
                       \/ /\ includes(a, aliases[k].key)
                          /\ \E v \in DOMAIN aliases[k].values : includes(b, aliases[k].values[v])
                       \/ /\ includes(b, aliases[k].key)
                          /\ \E v \in DOMAIN aliases[k].values : includes(a, aliases[k].values[v])
        sameCity == \E city \in {"abuja", "lagos", "port harcourt", "ibadan", "kano"} :
                        includes(a, city) /\ includes(b, city)
    IN  CASE contained -> 100
          [] ~contained /\ aliased -> 90
          [] ~contained /\ ~aliased /\ sameCity -> 50
          [] OTHER -> 0

\* C20 as stated: the location score is 0 when either location is unset, and
\* otherwise the tier of the two lowercased strings: 100, else 90, else 50, else 0.
CexC20_TiersOfLowercased ==
    scored.called =>
        scored.breakdown.location =
            IF sCriteria.location = "" \/ sProperty.location = "" THEN 0
            ELSE LocationTier(toLowerCase(sCriteria.location), toLowerCase(sProperty.location))

\* C20 as amended: the location score is 0 when either location is unset, and
\* otherwise the tier of the two strings lowercased and stripped of the whitespace
\* around them, in strict precedence: 100, else 90, else 50, else 0; no other
\* value is returned.
ThmC20_TiersOfTrimmed ==
    scored.called =>
        /\ scored.breakdown.location \in {0, 50, 90, 100}
        /\ scored.breakdown.location =
               IF sCriteria.location = "" \/ sProperty.location = "" THEN 0
               ELSE LocationTier(trim(toLowerCase(sCriteria.location)),
                                 trim(toLowerCase(sProperty.location)))

\* C20 witness: two areas of the same city that are also an alias pair; the alias
\* tier comes first and the score is 90.
WitC20_AliasBeforeCity ==
    /\ scored.called
    /\ sCriteria.location = "Wuse Zone 5, Abuja" /\ sProperty.location = "Wuse 2, Abuja"
    /\ scored.breakdown.location = 90

\* the age bracket of a listing at clock t, as the claim names them
AgeBracket(createdAt, t) ==
    IF createdAt = NoDate THEN 0
    ELSE IF t - createdAt <= 7 THEN 1
    ELSE IF t - createdAt <= 14 THEN 2
    ELSE IF t - createdAt <= 30 THEN 3
    ELSE IF t - createdAt <= 60 THEN 4
    ELSE 5

ThmC13_ConditionScore ==
    scored.called =>
        LET dated == sProperty.created_at # NoDate
            age == scored.at - sProperty.created_at
            base == IF sProperty.verified THEN 100 ELSE 60
            penalty == IF dated /\ age > 60 THEN 20
                       ELSE IF dated /\ age > 30 THEN 10
                       ELSE 0
            score == scored.breakdown.condition
        IN  /\ score = Max(0, base - penalty)
            /\ score >= 0
            /\ (sProperty.verified /\ dated /\ age = 0) => score = 100
            /\ (sProperty.verified /\ dated /\ age = 65) => score = 80

\* C13 witness: a verified listing scored 65 days after its creation, at 80.
WitC13_Backdated65 ==
    /\ scored.called
    /\ sProperty.verified /\ sProperty.created_at = 0 /\ scored.at = 65
    /\ scored.breakdown.condition = 80

\* C10: calculateLocationScore(a, b) = calculateLocationScore(b, a) for all
\* location strings a and b, in every tier.
ThmC10_LocationSymmetric ==
    scored.called =>
        scored.breakdown.location
            = calculateLocationScore(sProperty.location, sCriteria.location)

\* C10 witness: an alias pair scored 90 with the abbreviation on the listing's side.
WitC10_AliasPair ==
    /\ scored.called
    /\ sCriteria.location = "Government Reserved Area" /\ sProperty.location = "GRA"
    /\ scored.breakdown.location = 90

(***************************************************************************)
(* Price harness: calculateMatchScore over listing prices on a grid of     *)
(* 50000 naira and at each tier's bound and one naira above it, against    *)
(* criteria with no price, a maximum only, a minimum only, and both.       *)
(***************************************************************************)
PriceMaxima == {1000000, 3000000}

PricePoints ==
    {k * 50000 : k \in 0..80}
        \cup {(tenths * max) \div 10 + over :
                  tenths \in {8, 9, 10, 11, 12}, max \in PriceMaxima, over \in {0, 1}}

PricePairs ==
    {<<0, 0>>, <<0, 1000000>>, <<0, 3000000>>, <<2000000, 3000000>>,
     <<1000000, 1000000>>, <<2000000, 0>>}

InitPrice ==
    /\ now = 0
    /\ sProperty \in [location : {"Wuse 2, Abuja"}, price : PricePoints, amenities : {<<>>},
                      verified : {TRUE}, created_at : {0}, user_id : {1}]
    /\ sCriteria \in {[location |-> "Wuse 2", minPrice |-> r[1], maxPrice |-> r[2],
                       amenities |-> <<>>] : r \in PricePairs}
    /\ scored = NoCall
    /\ scoredBefore = NoCall
    /\ StoreIdle

SpecPrice == InitPrice /\ [][NextScore]_vars

(***************************************************************************)
(* Claims about the price score.                                           *)
(***************************************************************************)

\* C11: with a maxPrice, no minPrice and a listing price p > 0, the price score is
\* 100 if p <= 0.8 max, 95 if 0.8 max < p <= 0.9 max, 90 if 0.9 max < p <= max,
\* 70 if max < p <= 1.1 max, 40 if 1.1 max < p <= 1.2 max and 0 if p > 1.2 max; so
\* p = max gives 90, p = 1.15 max and p = 1.2 max give 40 and p = 1.25 max gives 0.
ThmC11_MaxOnlyTiers ==
    (scored.called /\ sCriteria.minPrice = 0 /\ sCriteria.maxPrice > 0 /\ sProperty.price > 0)
        => LET p == sProperty.price
               max == sCriteria.maxPrice
               score == scored.breakdown.price
           IN  /\ (10 * p <= 8 * max) => score = 100
               /\ (8 * max < 10 * p /\ 10 * p <= 9 * max) => score = 95
               /\ (9 * max < 10 * p /\ p <= max) => score = 90
               /\ (max < p /\ 10 * p <= 11 * max) => score = 70
               /\ (11 * max < 10 * p /\ 10 * p <= 12 * max) => score = 40
               /\ (12 * max < 10 * p) => score = 0
               /\ (p = max) => score = 90
               /\ (20 * p = 23 * max \/ 10 * p = 12 * max) => score = 40
               /\ (4 * p = 5 * max) => score = 0

\* C11 witness: a listing priced exactly 1.2 times the maximum, scored 40.
WitC11_AtTwelveTenths ==
    /\ scored.called
    /\ sCriteria.minPrice = 0 /\ sCriteria.maxPrice = 3000000
    /\ sProperty.price = 3600000
    /\ scored.breakdown.price = 40

\* C19: with both a minPrice and a maxPrice, the price score is 70 or 40 only for a
\* listing price above maxPrice (by at most 10% and at most 20%), and a price below
\* minPrice scores 0.
CexC19_BelowMinimumScoresZero ==
    (scored.called /\ sCriteria.minPrice > 0 /\ sCriteria.maxPrice > 0 /\ sProperty.price > 0)
        => LET p == sProperty.price
               score == scored.breakdown.price
           IN  /\ (score = 70) => (p > sCriteria.maxPrice /\ 10 * p <= 11 * sCriteria.maxPrice)
               /\ (score = 40) => (p > sCriteria.maxPrice /\ 10 * p <= 12 * sCriteria.maxPrice)
               /\ (p < sCriteria.minPrice) => score = 0

(***************************************************************************)
(* Amenities harness: calculateMatchScore over every list of at most       *)
(* MaxRequested requested tags and at most MaxListed listing tags; the     *)
(* tags match by case, by containment one way, the other way, or not.      *)
(***************************************************************************)
MaxRequested == 3
MaxListed == 2

RequestedTags == {"pool", "GYM", "Car Parking", "water"}
ListedTags == {"Parking", "Swimming Pool", "gym", "24hr Power"}

ListsOf(tags, n) == UNION {[1..k -> tags] : k \in 0..n}

InitAmenities ==
    /\ now = 0
    /\ sProperty \in [location : {"Wuse 2, Abuja"}, price : {2700000},
                      amenities : ListsOf(ListedTags, MaxListed),
                      verified : {TRUE}, created_at : {0}, user_id : {1}]
    /\ sCriteria \in [location : {"Wuse 2"}, minPrice : {0}, maxPrice : {3000000},
                      amenities : ListsOf(RequestedTags, MaxRequested)]
    /\ scored = NoCall
    /\ scoredBefore = NoCall
    /\ StoreIdle

SpecAmenities == InitAmenities /\ [][NextScore]_vars

Row(id, type, location, price, bedrooms, amenities, verified, status, createdAt) ==
    [id |-> id, type |-> type, location |-> location, price |-> price,
     bedrooms |-> bedrooms, amenities |-> amenities, verified |-> verified,
     status |-> status, created_at |-> createdAt, user_id |-> 1]

RowPool ==
    {Row(1, "apartment", "Garki, Abuja", 2400000, 3, <<"Swimming Pool", "Parking">>,
         TRUE, "active", 0),
     Row(2, "apartment", "Wuse 2, Abuja", 3000000, 3, <<>>, TRUE, "active", 57),
     Row(3, "apartment", "Wuse 2, Abuja", 3000000, 3, <<>>, TRUE, "active", 58),
     Row(4, "duplex", "Lekki Phase 1, Lagos", 3300000, 2, <<"Gym">>, TRUE, "active", 59),
     Row(5, "apartment", "Wuse 2, Abuja", 2400000, 3, <<>>, FALSE, "pending", 60)}

MaxRows == 3

\* a set of rows as a table, in insertion (id) order
RECURSIVE tableOf(_)
tableOf(rows) ==
    IF rows = {} THEN <<>>
    ELSE LET last == CHOOSE r \in rows : \A o \in rows : o.id <= r.id
         IN  Append(tableOf(rows \ {last}), last)

SearchCriteria ==
    {NoCriteria,
     Criteria("", "", 0, 3000000, 0, <<"pool">>),
     Criteria("Wuse 2, Abuja", "", 0, 3000000, 3, <<>>),
     Criteria("Wuse 2, Abuja", "apartment", 2000000, 3000000, 3, <<"gym">>),
     Criteria("Lekki", "", 0, 0, 3, <<>>),
     Criteria("Ikoyi", "", 0, 2000000, 1, <<>>),
     Criteria("abuja", "duplex", 0, 3000000, 3, <<>>),
     Criteria("Wuse 2, Abuja, Nigeria", "", 0, 3000000, 3, <<>>)}

InitSearch ==
    /\ now = 60
    /\ \E rows \in SUBSET RowPool :
          /\ Cardinality(rows) <= MaxRows
          /\ properties = tableOf(rows)
    /\ nextId = 6
    /\ approvedIds = {}
    /\ response = NoResponse
    /\ conversationContext = NoContext
    /\ AuthIdle
    /\ PageIdle
    /\ sProperty \in [location : {""}, price : {0}, amenities : {<<>>},
                      verified : {FALSE}, created_at : {0}, user_id : {1}]
    /\ sCriteria \in [location : {""}, minPrice : {0}, maxPrice : {0}, amenities : {<<>>}]
    /\ scored = NoCall
    /\ scoredBefore = NoCall

\* one call of matchingService.findMatches(criteria) whose repository query succeeds
FindMatchesOf(criteria) ==
    /\ response' = [NoResponse EXCEPT
                        !.kind = "matches",
                        !.criteria = criteria,
                        !.queried = 1,
                        !.rows = findByCriteria(properties,
                                     Criteria(criteria.location, criteria.propertyType,
                                              criteria.minPrice, criteria.maxPrice,
                                              criteria.bedrooms, <<>>)),
                        !.matches = findMatches(properties, criteria, now)]
    /\ UNCHANGED <<now, scoreVars, storeVars>>

FindMatchesCall == \E criteria \in SearchCriteria : FindMatchesOf(criteria)

\* one call of matchingService.findMatches(criteria) during which the clock passes
\* to its next instant, while the map is at one of the rows
FindMatchesAcrossTick ==
    \E criteria \in SearchCriteria, later \in Instants :
        \E rows \in {findByCriteria(properties,
                                    Criteria(criteria.location, criteria.propertyType,
                                             criteria.minPrice, criteria.maxPrice,
                                             criteria.bedrooms, <<>>))} :
        \E k \in DOMAIN rows :
            /\ later > now
            /\ \A t \in Instants : ~(now < t /\ t < later)
            /\ response' = [NoResponse EXCEPT
                                !.kind = "matchesAcrossTick",
                                !.criteria = criteria,
                                !.queried = 1,
                                !.rows = rows,
                                !.matches = rankMatchesDuring(rows, criteria, now, later, k)]
            /\ now' = later
            /\ UNCHANGED <<scoreVars, storeVars>>

\* the errors query() rejects with
QueryErrors == {"ECONNREFUSED", "statement timeout"}

\* the catch of Property.findByCriteria: the error is logged and thrown again
findByCriteriaCatch(error) == error

\* the catch of findMatches with the error swallowed: [] is returned
findMatchesCatchEmpty(error) ==
    [thrown |-> "none", matches |-> <<>>, queried |-> 1]

\* the catch of findMatches: the error is logged and thrown again; the one query
\* has been made and nothing is returned
findMatchesCatch(error) ==
    [thrown |-> error, matches |-> <<>>, queried |-> 1]

\* one call of matchingService.findMatches(criteria) whose repository query throws
FindMatchesThrows ==
    \E criteria \in SearchCriteria, error \in QueryErrors :
        \E caught \in {findMatchesCatch(findByCriteriaCatch(error))} :
            /\ response' = [NoResponse EXCEPT
                                !.kind = "matches",
                                !.criteria = criteria,
                                !.dbError = error,
                                !.thrown = caught.thrown,
                                !.queried = caught.queried,
                                !.matches = caught.matches]
            /\ UNCHANGED <<now, scoreVars, storeVars>>

\* the repository queries that throw during one call: none, or one of the four
FailingSets == {{}} \cup {{q} : q \in NearbyQuery..RelaxedQuery}

\* one call of matchingService.getSmartSuggestions(criteria); the repository queries
\* of the set failing throw
SuggestionsOf(criteria, failing) ==
    /\ response' = [NoResponse EXCEPT
                        !.kind = "suggestions",
                        !.criteria = criteria,
                        !.failing = failing,
                        !.suggested = TRUE,
                        !.suggestions = getSmartSuggestions(properties, criteria, failing)]
    /\ UNCHANGED <<now, scoreVars, storeVars>>

SuggestionsCall ==
    \E criteria \in SearchCriteria, failing \in FailingSets : SuggestionsOf(criteria, failing)

NextSearch ==
    \/ Tick
    \/ FindMatchesCall
    \/ FindMatchesAcrossTick
    \/ FindMatchesThrows
    \/ SuggestionsCall

SpecSearch == InitSearch /\ [][NextSearch]_vars

(***************************************************************************)
(* Claims about findMatches and getSmartSuggestions.                       *)
(***************************************************************************)

\* C3: every listing in the sequence findMatches returns has matchScore >= 40, the
\* matchScore being the listing's score; a listing of the repository result whose
\* score is below 40 is never returned.
ThmC3_OnlyGoodMatches ==
    response.kind = "matches" =>
        /\ \A i \in DOMAIN response.matches :
              /\ response.matches[i].matchScore >= 40
              /\ \E j \in DOMAIN response.rows :
                    /\ response.rows[j].id = response.matches[i].id
                    /\ response.matches[i].matchScore
                           = calculateMatchScore(response.rows[j], response.criteria, now)
        /\ \A j \in DOMAIN response.rows :
              calculateMatchScore(response.rows[j], response.criteria, now) < 40
                  => \A i \in DOMAIN response.matches :
                         response.matches[i].id # response.rows[j].id

\* C3 witness: a search that returns a listing and leaves out another listing of
\* the repository result, which scores below 40.
WitC3_LowScoreLeftOut ==
    /\ response.kind = "matches"
    /\ Len(response.matches) >= 1
    /\ \E j \in DOMAIN response.rows :
          /\ calculateMatchScore(response.rows[j], response.criteria, now) < 40
          /\ \A i \in DOMAIN response.matches :
                response.matches[i].id # response.rows[j].id

\* the place of the listing numbered id in the repository result
PlaceInRows(id) == CHOOSE j \in DOMAIN response.rows : response.rows[j].id = id

\* C4: the sequence findMatches returns is ordered by non-increasing matchScore, and
\* two returned listings with equal matchScore are in the relative order in which
\* the repository returned them.
ThmC4_SortedAndStable ==
    response.kind = "matches" =>
        \A i, j \in DOMAIN response.matches :
            i < j =>
                /\ response.matches[i].matchScore >= response.matches[j].matchScore
                /\ (response.matches[i].matchScore = response.matches[j].matchScore
                       => PlaceInRows(response.matches[i].id)
                              < PlaceInRows(response.matches[j].id))

\* C4 witness: a result in which the sort moved a listing ahead of two listings the
\* repository returned before it, and those two tie.
WitC4_ReorderedWithTie ==
    /\ response.kind = "matches"
    /\ Len(response.matches) = 3
    /\ PlaceInRows(response.matches[1].id) = 3
    /\ response.matches[1].matchScore > response.matches[2].matchScore
    /\ response.matches[2].matchScore = response.matches[3].matchScore
    /\ PlaceInRows(response.matches[2].id) < PlaceInRows(response.matches[3].id)

\* C17: findMatches makes a single repository query, and when that query throws,
\* findMatches throws the same error to its caller: there is no second query and
\* no partial result.
ThmC17_QueryFailurePropagates ==
    (response.kind = "matches")
        => /\ response.queried = 1
           /\ (response.dbError # "none")
                  => /\ response.thrown = response.dbError
                     /\ response.matches = <<>>
           /\ (response.dbError = "none") => response.thrown = "none"

\* C17 witness: a call whose query was refused, the refusal thrown to the caller.
WitC17_Refused ==
    /\ response.kind = "matches"
    /\ response.dbError = "ECONNREFUSED"
    /\ response.thrown = "ECONNREFUSED"
    /\ response.queried = 1

\* the sub-list of query q in a suggestions object
SubListOf(suggestions, q) ==
    IF q = NearbyQuery THEN suggestions.nearbyAreas
    ELSE IF q = CheaperQuery THEN suggestions.cheaperOptions
    ELSE IF q = PremiumQuery THEN suggestions.premiumOptions
    ELSE suggestions.relaxedCriteria.properties

\* C7: if the repository query of one sub-list fails, every other sub-list whose own
\* query succeeds is still computed and returned.
CexC7_SubListsIndependent ==
    response.kind = "suggestions" =>
        \A q \in NearbyQuery..RelaxedQuery :
            (suggestionAsked(q, response.criteria) /\ q \notin response.failing)
                => SubListOf(response.suggestions, q)
                       = suggestionList(q, findByCriteria(properties,
                                               suggestionQuery(q, response.criteria)),
                                        response.criteria)

\* whether a listing passes the location, bedrooms and propertyType filters of a
\* criteria
keepsFilters(p, criteria) ==
    /\ (criteria.location # "" => ilike(p.location, criteria.location))
    /\ (criteria.bedrooms # 0 => p.bedrooms = criteria.bedrooms)
    /\ (criteria.propertyType # "" => ilike(p.type, criteria.propertyType))

\* C21: every listing in cheaperOptions passes the location, bedrooms and
\* propertyType filters of the criteria and has price <= 0.8 * maxPrice; every
\* listing in premiumOptions passes the same filters and has
\* maxPrice <= price <= 1.2 * maxPrice; each of the two lists has at most 3 listings.
CexC21_PriceOptionsKeepFilters ==
    response.kind = "suggestions" =>
        LET criteria == response.criteria
            cheaper == response.suggestions.cheaperOptions
            premium == response.suggestions.premiumOptions
        IN  /\ Len(cheaper) <= 3
            /\ Len(premium) <= 3
            /\ \A i \in DOMAIN cheaper :
                   /\ keepsFilters(cheaper[i], criteria)
                   /\ 10 * cheaper[i].price <= 8 * criteria.maxPrice
            /\ \A i \in DOMAIN premium :
                   /\ keepsFilters(premium[i], criteria)
                   /\ criteria.maxPrice <= premium[i].price
                   /\ 10 * premium[i].price <= 12 * criteria.maxPrice

\* the text after the first comma of a location, trimmed, or the whole location
\* when it has no comma
afterFirstComma(location) ==
    LET c1 == commaFrom(location, 1)
    IN  IF c1 = 0 THEN location ELSE trim(SubSeq(location, c1 + 1, Len(location)))

\* the text between the first comma of a location and its second comma (or its
\* end), trimmed; the whole location when it has no comma or that text is empty
betweenCommas(location) ==
    LET c1 == commaFrom(location, 1)
        c2 == IF c1 = 0 THEN 0 ELSE commaFrom(location, c1 + 1)
        text == IF c1 = 0 THEN ""
                ELSE trim(SubSeq(location, c1 + 1,
                                 IF c2 = 0 THEN Len(location) ELSE c2 - 1))
    IN  IF text = "" THEN location ELSE text

\* whether the listings of nearbyAreas are at most 3, each a verified listing a
\* query on the city (with the maxPrice and bedrooms of the criteria) returns, and
\* none with a location that contains the requested location, letter case aside
nearbyAreasFrom(city) ==
    LET criteria == response.criteria
        nearby == response.suggestions.nearbyAreas
    IN  /\ Len(nearby) <= 3
        /\ \A i \in DOMAIN nearby :
               /\ nearby[i].verified
               /\ ilike(nearby[i].location, city)
               /\ (criteria.maxPrice # 0 => nearby[i].price <= criteria.maxPrice)
               /\ (criteria.bedrooms # 0 => nearby[i].bedrooms = criteria.bedrooms)
               /\ ~includes(toLowerCase(nearby[i].location),
                            toLowerCase(criteria.location))

\* C22: nearbyAreas has at most 3 listings, each obtained from a query on the city
\* part of criteria.location (the text after the first comma, or the whole string
\* when there is no comma), and none of them has a location that contains, case
\* aside, the requested criteria.location.
CexC22_NearbyFromTextAfterComma ==
    response.kind = "suggestions"
        => nearbyAreasFrom(afterFirstComma(response.criteria.location))

\* C22, amended: nearbyAreas has at most 3 listings, each obtained from a query on
\* the text between the first and the second comma of criteria.location (to its
\* end when there is one comma), trimmed, or on the whole string when there is no
\* comma or that text is empty, and none of them has a location that contains,
\* case aside, the requested criteria.location.
ThmC22_NearbyFromTextBetweenCommas ==
    response.kind = "suggestions"
        => nearbyAreasFrom(betweenCommas(response.criteria.location))

\* C22 witness: a requested location with two commas, and a listing of its city
\* among the nearby areas.
WitC22_TwoCommas ==
    /\ response.kind = "suggestions"
    /\ response.criteria.location = "Wuse 2, Abuja, Nigeria"
    /\ Len(response.suggestions.nearbyAreas) >= 1

CexC24_ScoreIsSumOfBreakdown ==
    response.kind \in {"matches", "matchesAcrossTick"} =>
        \A i \in DOMAIN response.matches :
            response.matches[i].matchScore = overallOf(response.matches[i].scoreBreakdown)

(***************************************************************************)
(* routes/properties.js and models/Property.js: the life of a listing.     *)
(* The table is taken to have every column a statement names.              *)
(***************************************************************************)
MaxProperties == 2

\* the request bodies of POST /properties the model sends: one complete, one with
\* a negative price and a negative bedroom count, one without a location
CreateBodies ==
    {[type |-> "apartment", location |-> "Wuse 2, Abuja", price |-> 2400000,
      bedrooms |-> 3, amenities |-> <<"Parking">>],
     [type |-> "apartment", location |-> "Wuse 2, Abuja", price |-> -2400000,
      bedrooms |-> -1, amenities |-> <<>>],
     [type |-> "apartment", location |-> "", price |-> 2400000,
      bedrooms |-> 3, amenities |-> <<>>]}

\* the request bodies of PUT /properties/:id the model sends
UpdateBodies == {[verified |-> TRUE], [status |-> "active"], [price |-> -1, bedrooms |-> -1]}

\* Property.create: the INSERT names type, location, price, bedrooms, features,
\* verified, owner_id and created_at; status takes the column default 'pending' and
\* amenities and user_id stay NULL
createRow(id, propertyData, t) ==
    [id |-> id, type |-> propertyData.type, location |-> propertyData.location,
     price |-> propertyData.price, bedrooms |-> propertyData.bedrooms,
     amenities |-> <<>>, verified |-> propertyData.verified, status |-> "pending",
     created_at |-> t, user_id |-> 0]

\* the row after UPDATE properties SET <every key of updates> WHERE id = ...
updateRow(row, updates) ==
    [row EXCEPT
        !.price = IF "price" \in DOMAIN updates THEN updates.price ELSE @,
        !.bedrooms = IF "bedrooms" \in DOMAIN updates THEN updates.bedrooms ELSE @,
        !.verified = IF "verified" \in DOMAIN updates THEN updates.verified ELSE @,
        !.status = IF "status" \in DOMAIN updates THEN updates.status ELSE @]

\* Property.update on the table
updateTable(table, id, updates) ==
    [i \in DOMAIN table |-> IF table[i].id = id THEN updateRow(table[i], updates)
                            ELSE table[i]]

\* Property.delete on the table
deleteFrom(table, id) == SelectSeq(table, LAMBDA row : row.id # id)

\* whether the statement's RETURNING * has a row
hasRow(table, id) == \E i \in DOMAIN table : table[i].id = id

Replied(kind) == [NoResponse EXCEPT !.kind = kind]

\* POST /properties
CreateProperty ==
    \E body \in CreateBodies :
        IF body.type = "" \/ body.location = "" \/ body.price = 0 \/ body.bedrooms = 0
        THEN /\ response' = Replied("400")
             /\ UNCHANGED <<now, scoreVars, storeVars>>
        ELSE /\ nextId <= MaxProperties
             /\ properties' = Append(properties,
                                     createRow(nextId,
                                               [type |-> body.type, location |-> body.location,
                                                price |-> body.price,
                                                bedrooms |-> body.bedrooms,
                                                verified |-> FALSE],
                                               now))
             /\ nextId' = nextId + 1
             /\ response' = Replied("201")
             /\ UNCHANGED <<now, scoreVars, approvedIds, conversationContext, authVars, pageVars>>

\* PUT /properties/:id, which no middleware guards
UpdateProperty ==
    \E id \in 1..MaxProperties, updates \in UpdateBodies :
        IF hasRow(properties, id)
        THEN /\ properties' = updateTable(properties, id, updates)
             /\ response' = Replied("200")
             /\ UNCHANGED <<now, scoreVars, nextId, approvedIds, conversationContext, authVars, pageVars>>
        ELSE /\ response' = Replied("404")
             /\ UNCHANGED <<now, scoreVars, storeVars>>

\* DELETE /properties/:id
DeleteProperty ==
    \E id \in 1..MaxProperties :
        IF hasRow(properties, id)
        THEN /\ properties' = deleteFrom(properties, id)
             /\ response' = Replied("200")
             /\ UNCHANGED <<now, scoreVars, nextId, approvedIds, conversationContext, authVars, pageVars>>
        ELSE /\ response' = Replied("404")
             /\ UNCHANGED <<now, scoreVars, storeVars>>

\* the requests the admin routes receive: whether the Authorization header is a
\* Bearer one, the role in the payload verifyToken returns ("none" for null), and
\* the role of the row getUserById returns ("none" for no row)
AdminRequests ==
    {[bearer |-> FALSE, payload |-> "none", user |-> "none"],
     [bearer |-> TRUE, payload |-> "none", user |-> "none"],
     [bearer |-> TRUE, payload |-> "admin", user |-> "none"],
     [bearer |-> TRUE, payload |-> "user", user |-> "none"],
     [bearer |-> TRUE, payload |-> "user", user |-> "user"],
     [bearer |-> TRUE, payload |-> "user", user |-> "admin"]}

\* middleware/adminAuth.js: "next" when the handler runs, else the status answered
requireAdmin(req) ==
    IF ~req.bearer THEN "401"
    ELSE IF req.payload = "none" THEN "401"
    ELSE IF req.payload = "admin" THEN "next"
    ELSE IF req.user = "none" THEN "404"
    ELSE IF req.user # "admin" THEN "403"
    ELSE "next"

\* PUT /properties/:id/approve, behind requireAdmin
ApproveProperty ==
    \E id \in 1..MaxProperties, req \in AdminRequests :
        IF requireAdmin(req) # "next"
        THEN /\ response' = Replied(requireAdmin(req))
             /\ UNCHANGED <<now, scoreVars, storeVars>>
        ELSE IF hasRow(properties, id)
        THEN /\ properties' = updateTable(properties, id,
                                          [verified |-> TRUE, status |-> "active"])
             /\ approvedIds' = approvedIds \cup {id}
             /\ response' = Replied("200")
             /\ UNCHANGED <<now, scoreVars, nextId, conversationContext, authVars, pageVars>>
        ELSE /\ response' = Replied("404")
             /\ UNCHANGED <<now, scoreVars, storeVars>>

\* PUT /properties/:id/reject, behind requireAdmin
RejectProperty ==
    \E id \in 1..MaxProperties, req \in AdminRequests :
        IF requireAdmin(req) # "next"
        THEN /\ response' = Replied(requireAdmin(req))
             /\ UNCHANGED <<now, scoreVars, storeVars>>
        ELSE IF hasRow(properties, id)
        THEN /\ properties' = updateTable(properties, id, [status |-> "rejected"])
             /\ response' = Replied("200")
             /\ UNCHANGED <<now, scoreVars, nextId, approvedIds, conversationContext, authVars, pageVars>>
        ELSE /\ response' = Replied("404")
             /\ UNCHANGED <<now, scoreVars, storeVars>>

\* the criteria of the public searches made while listings come and go
PublicCriteria == {NoCriteria, Criteria("Wuse 2, Abuja", "", 0, 3000000, 3, <<>>)}

PublicFindMatches == \E criteria \in PublicCriteria : FindMatchesOf(criteria)

PublicSuggestions == \E criteria \in PublicCriteria : SuggestionsOf(criteria, {})

Init ==
    /\ now = 0
    /\ sProperty \in [location : {""}, price : {0}, amenities : {<<>>},
                      verified : {FALSE}, created_at : {0}, user_id : {1}]
    /\ sCriteria \in [location : {""}, minPrice : {0}, maxPrice : {0}, amenities : {<<>>}]
    /\ scored = NoCall
    /\ scoredBefore = NoCall
    /\ StoreIdle

Next ==
    \/ CreateProperty
    \/ UpdateProperty
    \/ DeleteProperty
    \/ ApproveProperty
    \/ RejectProperty
    \/ PublicFindMatches
    \/ PublicSuggestions

Spec == Init /\ [][Next]_vars

(***************************************************************************)
(* Claims about which listings a public search returns.                    *)
(***************************************************************************)

\* every listing a search or a suggestions call returned
Returned ==
    {response.matches[i] : i \in DOMAIN response.matches}
    \cup UNION {{SubListOf(response.suggestions, q)[i] :
                    i \in DOMAIN SubListOf(response.suggestions, q)} :
                q \in NearbyQuery..RelaxedQuery}

\* C5: in every state reached through create, update, approve, reject and delete,
\* every listing a public search returns (findMatches and every sub-list of
\* getSmartSuggestions) has verified = true, and a listing that was created and not
\* yet approved never appears.
CexC5_OnlyApprovedListingsReturned ==
    \A p \in Returned : p.verified /\ p.id \in approvedIds

\* C15: a listing is created with verified = false; its verified flag becomes true
\* only through the admin approve route, which runs only behind requireAdmin; no
\* operation reachable without admin authentication sets verified = true or
\* status = 'active'.
CexC15_VerifiedOnlyByApprove ==
    /\ (response.kind = "201") => ~properties[Len(properties)].verified
    /\ \A i \in DOMAIN properties :
           (properties[i].verified \/ properties[i].status = "active")
               => properties[i].id \in approvedIds

\* C16: every listing stored through POST /properties and PUT /properties/:id has
\* price > 0 and bedrooms >= 0.
CexC16_PricePositive ==
    \A i \in DOMAIN properties : properties[i].price > 0 /\ properties[i].bedrooms >= 0

\* the operations of the moderation life of a listing: created, approved and
\* rejected, and searched by the public meanwhile
NextModeration ==
    \/ CreateProperty
    \/ ApproveProperty
    \/ RejectProperty
    \/ PublicFindMatches
    \/ PublicSuggestions

SpecModeration == Init /\ [][NextModeration]_vars

Queries ==
    {"3 bedroom flat in Wuse 2 under 3M",
     "House at Garki, Abuja below 2.5M with parking"}

\* what the model answers when asked for the entities of a search
EntityReplies ==
    {[kind |-> "raise", fields |-> NoCriteria],
     [kind |-> "scalar", fields |-> NoCriteria],
     [kind |-> "object", fields |-> Criteria("wuse", "", 0, 3000000, 3, <<>>)],
     [kind |-> "object", fields |-> Criteria("Maitama, Abuja", "", 0, 2500000, 3, <<>>)]}

\* what the model answers to the two calls of one message: the intent call raises
\* (as it does without an API key), or it answers 'search' and the entities call
\* answers or raises
AIReplies ==
    {[intent |-> "raise", entities |-> [kind |-> "raise", fields |-> NoCriteria]]}
    \cup {[intent |-> "search", entities |-> r] : r \in EntityReplies}

RouteQueries ==
    {NoCriteria,
     Criteria("Wuse 2", "", 0, 3000000, 3, <<>>),
     Criteria("Ikoyi", "", 0, 2000000, 0, <<>>)}

InitChat ==
    /\ now = 60
    /\ properties = tableOf({r \in RowPool : r.id \in 1..3})
    /\ nextId = 4
    /\ approvedIds = {}
    /\ response = NoResponse
    /\ conversationContext = NoContext
    /\ AuthIdle
    /\ PageIdle
    /\ sProperty \in [location : {""}, price : {0}, amenities : {<<>>},
                      verified : {FALSE}, created_at : {0}, user_id : {1}]
    /\ sCriteria \in [location : {""}, minPrice : {0}, maxPrice : {0}, amenities : {<<>>}]
    /\ scored = NoCall
    /\ scoredBefore = NoCall

\* POST /chat with a message and a phone, the model answering reply
ChatRouteOf(message, phone, reply) ==
    \E chat \in {processMessage(reply.intent, reply.entities, properties, now)} :
        /\ response' = [NoResponse EXCEPT !.kind = "chat", !.message = message,
                                          !.phone = phone, !.chat = chat]
        /\ conversationContext' = contextAfter(conversationContext, phone, message, chat)
        /\ UNCHANGED <<now, scoreVars, properties, nextId, approvedIds, authVars, pageVars>>

ChatRoute ==
    \E message \in Queries, phone \in Phones, reply \in AIReplies :
        ChatRouteOf(message, phone, reply)

\* GET /properties/search
SearchRoute ==
    \E criteria \in RouteQueries :
        /\ response' = searchAnswer([NoResponse EXCEPT !.kind = "search"],
                                    searchParams(criteria), properties, now)
        /\ UNCHANGED <<now, scoreVars, storeVars>>

\* findProperties as declared at app.js:177: the chat request, the criteria from the
\* entities of its answer (or from parseQueryManually when they are falsy), the
\* search request, the results screen
FindProperties ==
    \E query \in Queries, phone \in Phones, reply \in AIReplies :
        \E chat \in {processMessage(reply.intent, reply.entities, properties, now)} :
        \E searchCriteria \in {IF truthy(chat.entities) THEN criteriaOf(chat.entities)
                                ELSE parseQueryManually(query)} :
            /\ response' = searchAnswer([NoResponse EXCEPT
                                            !.kind = "find", !.message = query,
                                            !.chat = chat,
                                            !.parsedManually = ~truthy(chat.entities),
                                            !.screen = "find-results"],
                                        searchParams(searchCriteria), properties, now)
            /\ conversationContext' = contextAfter(conversationContext, phone, query, chat)
            /\ UNCHANGED <<now, scoreVars, properties, nextId, approvedIds, authVars, pageVars>>

\* findProperties as declared at app.js:1078: the chat request, then the search
\* request with the entities when the intent is 'search', else the reply in an alert
FindPropertiesLater ==
    \E query \in Queries, phone \in Phones, reply \in AIReplies :
        \E chat \in {processMessage(reply.intent, reply.entities, properties, now)} :
        \E shown \in {[NoResponse EXCEPT !.kind = "findLater", !.message = query,
                                          !.chat = chat]} :
            /\ response' = IF chat.intent = "search" /\ truthy(chat.entities)
                           THEN searchAnswer([shown EXCEPT !.screen = "find-results"],
                                             searchParams(criteriaOf(chat.entities)),
                                             properties, now)
                           ELSE [shown EXCEPT !.screen = "find-step2"]
            /\ conversationContext' = contextAfter(conversationContext, phone, query, chat)
            /\ UNCHANGED <<now, scoreVars, properties, nextId, approvedIds, authVars, pageVars>>

NextChat == ChatRoute \/ SearchRoute \/ FindProperties \/ FindPropertiesLater

SpecChat == InitChat /\ [][NextChat]_vars

(***************************************************************************)
(* Claims about the callers of findMatches and the extraction fallback.    *)
(***************************************************************************)

\* C8: whenever findMatches returns an empty sequence, its caller invokes
\* getSmartSuggestions and returns its output instead of an empty list; this holds
\* for the chat handler and for GET /properties/search.
CexC8_EmptyResultSuggests ==
    /\ (response.chat.ranked /\ Len(response.chat.matches) = 0) => response.chat.suggested
    /\ (response.searched /\ Len(response.matches) = 0) => response.suggested

\* C9: when the entity extraction raises, the search flow derives the criteria with
\* parseQueryManually from the same text, and the property search runs with them.
CexC9_FallsBackToRegex ==
    (response.kind \in {"find", "findLater"} /\ response.chat.raised # "no")
        => /\ response.parsedManually
           /\ response.searched
           /\ response.criteria = routeCriteria(searchParams(parseQueryManually(response.message)))

(***************************************************************************)
(* Context harness: saveContext, clearContext and processMessage for two   *)
(* phone numbers, each sending messages of its own.                        *)
(***************************************************************************)
ContextPhones == {"+2348012345678", "+2348087654321"}

MessagesOf(phone) ==
    IF phone = "+2348012345678"
    THEN {"3 bedroom flat in Wuse 2 under 3M", "show me more"}
    ELSE {"House at Garki, Abuja below 2.5M with parking"}

\* what the model answers in this harness: the intent call raises, or the entities
\* call answers an object
ContextReplies ==
    {r \in AIReplies : r.intent = "raise" \/ r.entities.fields.location = "wuse"}

InitContext ==
    /\ now = 60
    /\ properties = <<>>
    /\ nextId = 1
    /\ approvedIds = {}
    /\ response = NoResponse
    /\ conversationContext = [phone \in ContextPhones |-> <<>>]
    /\ AuthIdle
    /\ PageIdle
    /\ sProperty \in [location : {""}, price : {0}, amenities : {<<>>},
                      verified : {FALSE}, created_at : {0}, user_id : {1}]
    /\ sCriteria \in [location : {""}, minPrice : {0}, maxPrice : {0}, amenities : {<<>>}]
    /\ scored = NoCall
    /\ scoredBefore = NoCall

\* saveContext(phone, messageData) called by the module's user
SaveContextCall ==
    \E phone \in ContextPhones :
        \E message \in MessagesOf(phone) :
            /\ conversationContext' = saveContext(conversationContext, phone,
                                                  [message |-> message, intent |-> "search"])
            /\ response' = [NoResponse EXCEPT !.kind = "saveContext", !.message = message,
                                              !.phone = phone]
            /\ UNCHANGED <<now, scoreVars, properties, nextId, approvedIds, authVars, pageVars>>

\* clearContext(phone)
ClearContextCall ==
    \E phone \in ContextPhones :
        /\ conversationContext' = clearContext(conversationContext, phone)
        /\ response' = [NoResponse EXCEPT !.kind = "clearContext", !.phone = phone]
        /\ UNCHANGED <<now, scoreVars, properties, nextId, approvedIds, authVars, pageVars>>

\* processMessage(message, phone)
ProcessMessageCall ==
    \E phone \in ContextPhones, reply \in ContextReplies :
        \E message \in MessagesOf(phone) : ChatRouteOf(message, phone, reply)

NextContext == SaveContextCall \/ ClearContextCall \/ ProcessMessageCall

SpecContext == InitContext /\ [][NextContext]_vars

\* the last n elements of a sequence
LastOf(seq, n) == SubSeq(seq, Max(1, Len(seq) - n + 1), Len(seq))

\* C23: after any sequence of saveContext, clearContext and processMessage calls
\* the context of every phone has at most 5 entries, and they are the entries
\* saved last for that phone, in the order they were saved: a save appends its
\* entry and, of more than 5, drops the oldest; a clear empties the context of its
\* phone; a processMessage that failed saves nothing; no call changes the context
\* of another phone, and no context holds a message of another phone.
ThmC23_RollingWindowPerPhone ==
    /\ [](\A phone \in ContextPhones :
            /\ Len(conversationContext[phone]) <= 5
            /\ \A i \in DOMAIN conversationContext[phone] :
                   conversationContext[phone][i].message \in MessagesOf(phone))
    /\ [][LET phone == response'.phone
              before == conversationContext[phone]
              after == conversationContext'[phone]
              saved == [message |-> response'.message, intent |-> "search"]
          IN  /\ phone \in ContextPhones
              /\ \A other \in ContextPhones \ {phone} :
                     conversationContext'[other] = conversationContext[other]
              /\ (response'.kind = "saveContext"
                     \/ (response'.kind = "chat" /\ response'.chat.raised = "no"))
                     => after = LastOf(Append(before, saved), 5)
              /\ (response'.kind = "chat" /\ response'.chat.raised # "no")
                     => after = before
              /\ (response'.kind = "clearContext") => after = <<>>]_vars

\* C23 witness: a full window whose newest entry is the one just saved and whose
\* oldest entry is another message, while the other phone keeps entries of its own.
WitC23_FullWindow ==
    \E phone \in ContextPhones, other \in ContextPhones :
        /\ other # phone
        /\ response.kind = "chat" /\ response.phone = phone
        /\ Len(conversationContext[phone]) = 5
        /\ conversationContext[phone][5].message = response.message
        /\ conversationContext[phone][1].message # response.message
        /\ Len(conversationContext[other]) = 2

(***************************************************************************)
(* Authentication harness: sendOTP and verifyOTP calls for the phones and  *)
(* codes above, MaxCalls of them in all, while the minutes pass and the    *)
(* cleanup job runs.                                                       *)
(***************************************************************************)
InitAuth ==
    /\ now = 0
    /\ sProperty \in [location : {""}, price : {0}, amenities : {<<>>},
                      verified : {FALSE}, created_at : {0}, user_id : {1}]
    /\ sCriteria \in [location : {""}, minPrice : {0}, maxPrice : {0}, amenities : {<<>>}]
    /\ scored = NoCall
    /\ scoredBefore = NoCall
    /\ StoreIdle

SpecAuth == InitAuth /\ [][NextAuth]_vars

CexC25_OneSuccessPerCode ==
    \A c, e \in CallIds :
        (/\ c # e
         /\ authCalls[c].op = "verifyOTP" /\ authCalls[c].success = "true"
         /\ authCalls[e].op = "verifyOTP" /\ authCalls[e].success = "true"
         /\ authCalls[c].token # NoToken /\ authCalls[e].token # NoToken)
            => authCalls[c].otp.id # authCalls[e].otp.id

\* C26: at any time otp_codes holds at most one unverified row per phone number,
\* so only the code issued last can still be verified.
CexC26_OneUnverifiedRowPerPhone ==
    \A r, q \in otp_codes :
        (r.phone = q.phone /\ ~r.verified /\ ~q.verified) => r = q

(***************************************************************************)
(* frontend/app.js: the screen navigation.  AppState is read as the record *)
(* of currentScreen and screenHistory.  The screens of the listing form,   *)
(* which goBack hands to listing.js, are left out.                         *)
(***************************************************************************)
MaxHistory == 5

\* the ids for which document.getElementById finds an element of class screen
Screens == {"home", "auth", "find-step2", "find-results", "property-detail"}

\* AppState as the navigation functions see it
appState == [currentScreen |-> currentScreen, screenHistory |-> screenHistory]

\* showScreen(screenId): nothing for an id without element; the id is pushed and
\* made current when it is not the current one
showScreen(app, screenId) ==
    IF screenId \notin Screens THEN app
    ELSE IF screenId # app.currentScreen
         THEN [currentScreen |-> screenId,
               screenHistory |-> Append(app.screenHistory, screenId)]
    ELSE app

\* goBack(): with more than one entry, pop, then showScreen of the new last entry
goBack(app) ==
    IF Len(app.screenHistory) > 1
    THEN LET popped == SubSeq(app.screenHistory, 1, Len(app.screenHistory) - 1)
         IN  showScreen([app EXCEPT !.screenHistory = popped], popped[Len(popped)])
    ELSE app

\* a call of showScreen, for a screen of the page or for an id it does not have
ShowScreen ==
    \E screenId \in Screens \cup {"missing"} :
        \E app \in {showScreen(appState, screenId)} :
            /\ Len(screenHistory) < MaxHistory
            /\ currentScreen' = app.currentScreen
            /\ screenHistory' = app.screenHistory
            /\ response' = [NoResponse EXCEPT !.kind = "showScreen", !.screen = screenId]
            /\ UNCHANGED <<now, scoreVars, properties, nextId, approvedIds,
                           conversationContext, authVars, localStorage, AuthState, pending>>

\* a call of goBack
GoBack ==
    \E app \in {goBack(appState)} :
        /\ currentScreen' = app.currentScreen
        /\ screenHistory' = app.screenHistory
        /\ response' = [NoResponse EXCEPT !.kind = "goBack"]
        /\ UNCHANGED <<now, scoreVars, properties, nextId, approvedIds,
                       conversationContext, authVars, localStorage, AuthState, pending>>

NextNavigation == ShowScreen \/ GoBack

SpecNavigation == Init /\ [][NextNavigation]_vars

\* C30: from the history home, A, B, C that showScreen(A), showScreen(B),
\* showScreen(C) leave (A, B, C distinct and not home), goBack makes B the current
\* screen and the history home, A, B; from there goBack makes A the current screen
\* and the history home, A; from there goBack returns to home with the history home.
CexC30_GoBackUndoesOneStep ==
    [][\A A, B, C \in Screens \ {"home"} :
          (A # B /\ B # C /\ A # C /\ response'.kind = "goBack") =>
              /\ (currentScreen = C /\ screenHistory = <<"home", A, B, C>>)
                     => (currentScreen' = B /\ screenHistory' = <<"home", A, B>>)
              /\ (currentScreen = B /\ screenHistory = <<"home", A, B>>)
                     => (currentScreen' = A /\ screenHistory' = <<"home", A>>)
              /\ (currentScreen = A /\ screenHistory = <<"home", A>>)
                     => (currentScreen' = "home" /\ screenHistory' = <<"home">>)]_vars

(***************************************************************************)
(* frontend/auth.js and frontend/api.js: the page's sign-in.  The page     *)
(* sends verifyOTP requests for the phone its sendOTP request was answered *)
(* for, and keeps the token of the answer in localStorage.                 *)
(***************************************************************************)
\* token.split('.'): the text generateToken returns is Base64, and the Base64
\* alphabet has no ".", so the split has one piece, the token
splitToken(token) == <<token>>

\* JSON.parse(atob(token.split('.')[1])): without a second piece atob is given
\* undefined, reads it as the nine characters "undefined", which are not Base64
\* text, and throws
decodePayload(token) ==
    LET pieces == splitToken(token)
    IN  IF Len(pieces) < 2 THEN [thrown |-> TRUE, payload |-> NoToken]
        ELSE [thrown |-> FALSE, payload |-> pieces[2]]

\* isAuthenticated(): what it returns and whether it called logout.  payload.exp
\* counts milliseconds and currentTime seconds.
isAuthenticated(storage, t) ==
    IF storage.authToken = NoToken THEN [returned |-> FALSE, loggedOut |-> FALSE]
    ELSE LET decoded == decodePayload(storage.authToken)
         IN  IF decoded.thrown THEN [returned |-> FALSE, loggedOut |-> TRUE]
             ELSE IF decoded.payload.exp # 0 /\ decoded.payload.exp * 1000 < t
                  THEN [returned |-> FALSE, loggedOut |-> TRUE]
             ELSE [returned |-> TRUE, loggedOut |-> FALSE]

\* the user object of verifyOTP's answer
userOf(token) ==
    [id |-> token.userId, phone |-> token.phone, role |-> token.role, verified |-> TRUE]

\* what the steps of the page's sign-in leave alone
backendVars == <<now, scoreVars, properties, nextId, approvedIds, conversationContext,
                 otp_codes, users, nextOtpId, nextUserId, minute>>

\* auth.js verifyOTP up to its request: the button is disabled until the answer
ClientVerifyOTP ==
    \E c \in CallIds, code \in OtpCodes :
        /\ pending.call = 0
        /\ AuthState.currentPhone # ""
        /\ nextCall(c)
        /\ authCalls' = [authCalls EXCEPT ![c] =
               [IdleCall EXCEPT !.op = "verifyOTP", !.pc = "select",
                                !.phone = AuthState.currentPhone, !.code = code]]
        /\ pending' = [pending EXCEPT !.call = c]
        /\ response' = [NoResponse EXCEPT !.kind = "verifyOTP"]
        /\ UNCHANGED <<backendVars, currentScreen, screenHistory, localStorage, AuthState>>

\* auth.js verifyOTP from the answer on: API.auth.verifyOTP and verifyOTP store the
\* token and the user of a successful answer and the redirect is scheduled; any
\* other answer is shown as an error
ClientVerifyOTPAnswer ==
    /\ pending.call # 0
    /\ authCalls[pending.call].pc = "done"
    /\ LET answer == authCalls[pending.call]
       IN  IF answer.success = "true" /\ answer.token # NoToken
           THEN /\ localStorage' = [authToken |-> answer.token, user |-> userOf(answer.token)]
                /\ AuthState' = [AuthState EXCEPT !.isAuthenticated = TRUE,
                                                  !.user = userOf(answer.token)]
                /\ pending' = [call |-> 0, redirect |-> TRUE]
           ELSE /\ pending' = [pending EXCEPT !.call = 0]
                /\ UNCHANGED <<localStorage, AuthState>>
    /\ response' = [NoResponse EXCEPT !.kind = "verifyOTP answered"]
    /\ UNCHANGED <<backendVars, authCalls, currentScreen, screenHistory>>

\* the timer verifyOTP set fires: showScreen('home')
ClientRedirectHome ==
    /\ pending.redirect
    /\ \E app \in {showScreen(appState, "home")} :
           /\ currentScreen' = app.currentScreen
           /\ screenHistory' = app.screenHistory
    /\ pending' = [pending EXCEPT !.redirect = FALSE]
    /\ response' = [NoResponse EXCEPT !.kind = "showScreen", !.screen = "home"]
    /\ UNCHANGED <<backendVars, authCalls, localStorage, AuthState>>

\* auth.js logout(): the two items removed, AuthState reset, showScreen('auth')
logout ==
    /\ localStorage' = NoStorage
    /\ AuthState' = [AuthState EXCEPT !.isAuthenticated = FALSE, !.user = NoUser]
    /\ \E app \in {showScreen(appState, "auth")} :
           /\ currentScreen' = app.currentScreen
           /\ screenHistory' = app.screenHistory

\* a call of auth.js logout
ClientLogout ==
    /\ logout
    /\ response' = [NoResponse EXCEPT !.kind = "logout"]
    /\ UNCHANGED <<backendVars, authCalls, pending>>

\* a call of auth.js isAuthenticated
ClientIsAuthenticated ==
    \E answer \in {isAuthenticated(localStorage, minute)} :
        /\ IF answer.loggedOut THEN logout
           ELSE UNCHANGED <<currentScreen, screenHistory, localStorage, AuthState>>
        /\ response' = [NoResponse EXCEPT !.kind = "isAuthenticated",
                                          !.returned = answer.returned]
        /\ UNCHANGED <<backendVars, authCalls, pending>>

\* a call of api.js API.auth.isAuthenticated, whose logout removes the two items
ApiIsAuthenticated ==
    \E answer \in {isAuthenticated(localStorage, minute)} :
        /\ localStorage' = IF answer.loggedOut THEN NoStorage ELSE localStorage
        /\ response' = [NoResponse EXCEPT !.kind = "API.auth.isAuthenticated",
                                          !.returned = answer.returned]
        /\ UNCHANGED <<backendVars, authCalls, pending, currentScreen, screenHistory,
                       AuthState>>

\* the phone of the page and the code sent to it
ClientPhone == "+2348012345678"

\* the page on its auth screen after its sendOTP request was answered: one code is
\* stored for its phone, which has no user yet
InitSignIn ==
    /\ now = 0
    /\ sProperty \in [location : {""}, price : {0}, amenities : {<<>>},
                      verified : {FALSE}, created_at : {0}, user_id : {1}]
    /\ sCriteria \in [location : {""}, minPrice : {0}, maxPrice : {0}, amenities : {<<>>}]
    /\ scored = NoCall
    /\ scoredBefore = NoCall
    /\ properties = <<>>
    /\ nextId = 1
    /\ approvedIds = {}
    /\ response = NoResponse
    /\ conversationContext = NoContext
    /\ \E code \in OtpCodes :
          /\ otp_codes = {[id |-> 1, phone |-> ClientPhone, code |-> code,
                           expires_at |-> OtpMinutes, verified |-> FALSE,
                           created_at |-> 0]}
          /\ authCalls = [c \in CallIds |->
                 IF c = 1
                 THEN [IdleCall EXCEPT !.op = "sendOTP", !.pc = "done",
                                       !.phone = ClientPhone, !.code = code,
                                       !.expiresAt = OtpMinutes, !.success = "true"]
                 ELSE IdleCall]
    /\ users = {}
    /\ nextOtpId = 2
    /\ nextUserId = 1
    /\ minute = 0
    /\ currentScreen = "auth"
    /\ screenHistory = <<"home", "auth">>
    /\ localStorage = NoStorage
    /\ AuthState = [currentPhone |-> ClientPhone, isAuthenticated |-> FALSE,
                    user |-> NoUser]
    /\ pending = [call |-> 0, redirect |-> FALSE]

NextSignIn ==
    \/ SendOTP
    \/ VerifyOTP
    \/ CleanupExpiredOTPs
    \/ AuthTick
    \/ ClientVerifyOTP
    \/ ClientVerifyOTPAnswer
    \/ ClientRedirectHome
    \/ ClientLogout
    \/ ClientIsAuthenticated
    \/ ApiIsAuthenticated

SpecSignIn == InitSignIn /\ [][NextSignIn]_vars

\* C28: once the page has stored the token of a successful verifyOTP, every call
\* of isAuthenticated (auth.js) and of API.auth.isAuthenticated made before the
\* token's expiry time, with the token still stored, returns true and leaves the
\* stored token and user in place.
CexC28_StoredTokenKeepsSignedIn ==
    [][(/\ response'.kind \in {"isAuthenticated", "API.auth.isAuthenticated"}
        /\ localStorage.authToken # NoToken
        /\ minute < localStorage.authToken.exp)
          => /\ response'.returned
             /\ localStorage' = localStorage]_vars

====
